---- MODULE Spec2Model ----
(***************************************************************************)
(* Model of MovieRipper (tbrowniot-hub/Just-Movies).                       *)
(*                                                                         *)
(*   Spec     the queue-run worker run_queue (watcher.py) together with    *)
(*            the disc monitor (ripper.py), the move step (pipeline.py),   *)
(*            the keeper selector (keeper.py) and the environment: the     *)
(*            operator inserting and removing discs, the stop signal.      *)
(*   FairSpec Spec with weak fairness on the worker's own steps.           *)
(*   WebSpec  the web run session (webapp/app.py): concurrent run/start,   *)
(*            run/stop and status requests and the worker threads.         *)
(*   FnSpec   one call of pick_keeper or audio_score (keeper.py),          *)
(*            safe_name or plex_base_name (pipeline.py), disc_present or   *)
(*            try_eject (ripper.py), resolve_config_path or                *)
(*            validate_config (config.py) on inputs from bounded sets.     *)
(*   WaitSpec one call of wait_for_disc or wait_for_disc_removed           *)
(*            (ripper.py) while the drive changes; FairWaitSpec adds weak  *)
(*            fairness on the polling step.                                *)
(*                                                                         *)
(* Text is modelled as a sequence of one-character strings; a number or an *)
(* identifier that contains neither a blank nor a special character is one *)
(* element of such a sequence.                                             *)
(***************************************************************************)
EXTENDS Integers, Sequences, FiniteSets, TLC

\* ------------------------------------------------------------------ bounds
MaxQueue == 2
MaxFinalizePolls == 2
MaxEjectCalls == 2
MaxRuns == 2
MaxHandlers == 2
MaxWebItems == 1
MaxFiles == 3
MaxLen == 5
MaxTitleLen == 3
MaxPollSeconds == 3
MaxWaitSeconds == 3
MaxLines == 2
MaxTracks == 2

\* ------------------------------------------------------- program constants
WaitPollSeconds == 3
WaitMaxSeconds == 3
RemovedPollSeconds == 2
RemovedTimeoutSeconds == 2
MinMinutesMain == 45
DurationTolTenths == 25
FinalizeCeilingSeconds == 1800
FinalizePollSeconds == 5
IdleSeconds == 180

VARIABLES
    \* ---- queue run (watcher.py run_queue)
    cfg,          \* the configuration values the run reads
    queue,        \* the loaded queue: a sequence of queue items
    pc,           \* the worker's position in run_queue
    i,            \* 1-based index of the current queue item
    stop_event,   \* the cancellation signal
    waited,       \* sleeps done inside the running wait_for_disc[_removed] call
    fin_polls,    \* sleeps done in the finalize wait of the current item
    ej_calls,     \* wait_for_disc_removed calls that timed out in the eject wait
    ejected,      \* what try_eject returned for the current item
    removed,      \* what the last wait_for_disc_removed returned
    rip_result,   \* rc of the last rip, until the next item is taken up
    clock,        \* the value _now_tag() was last built from
    statusLog,    \* every update_status call of the run, in order
    error,        \* the exception that left run_queue, "none" if none
    \* ---- the world
    disc,         \* is a disc in the drive
    disc_new,     \* was that disc inserted after the current item became current
    folders,      \* the working folders, by queue position
    dest_dirs,    \* directories existing under the destination root
    dest,         \* files existing under the destination root: path -> content
    \* ---- history of the run
    leftover,     \* was a disc in the drive when the current item became current
    ripped,       \* the disc the current item's rip was invoked on: none, leftover, new
    stop_at_rip,  \* was the signal already set at the poll that led to that rip
    outcome,      \* by item: pending, current, skipped, moved, failed, stopped
    stop_seen_at  \* the position at which the worker observed the signal
\* ---- web run session (webapp/app.py)
VARIABLES
    lock,         \* STATE.lock: 0 when free, else the holder
    thread,       \* STATE.thread: 0 when None, else a worker id
    alive,        \* the worker threads that are alive
    web_stop,     \* STATE.stop_event
    web_status,   \* STATE.status
    req,          \* by request handler: its request and position
    wk,           \* by worker id: its position in run_queue
    runs          \* worker threads created so far
\* ---- a single call of one function of the program, for the properties of functions
VARIABLES
    call          \* the function called, its arguments and what it returned

runVars == <<cfg, queue, pc, i, stop_event, waited, fin_polls, ej_calls, ejected,
             removed, rip_result, clock, statusLog, error, disc, disc_new, folders,
             dest_dirs, dest, leftover, ripped, stop_at_rip, outcome, stop_seen_at, call>>
webVars == <<lock, thread, alive, web_stop, web_status, req, wk, runs>>
vars == <<runVars, webVars>>

\* ======================================================== text and names
Last(s) == s[Len(s)]

\* pipeline.py safe_name: bad = '<>:"/\|?*'
BadChars == {"<", ">", ":", "\"", "/", "\\", "|", "?", "*"}

\* ''.join('_' if c in bad else c for c in title)
ReplaceBad(s) == [k \in 1..Len(s) |-> IF s[k] \in BadChars THEN "_" ELSE s[k]]

HasDoubleSpace(s) == \E k \in 1..(Len(s) - 1) : s[k] = " " /\ s[k + 1] = " "

\* str.replace("  ", " "): one left-to-right pass over non-overlapping matches
RECURSIVE ReplaceDoubleSpace(_)
ReplaceDoubleSpace(s) ==
    IF Len(s) < 2 THEN s
    ELSE IF s[1] = " " /\ s[2] = " "
         THEN <<" ">> \o ReplaceDoubleSpace(SubSeq(s, 3, Len(s)))
         ELSE <<s[1]>> \o ReplaceDoubleSpace(Tail(s))

\* CollapseSpaces with a plausible slip: one replace pass, no loop
CollapseOnce(s) == ReplaceDoubleSpace(s)

\* while "  " in out: out = out.replace("  ", " ")
RECURSIVE CollapseSpaces(_)
CollapseSpaces(s) == IF HasDoubleSpace(s) THEN CollapseSpaces(ReplaceDoubleSpace(s)) ELSE s

\* the whitespace of the model's alphabet: the space and the tab
Blanks == {" ", "\t"}

\* str.strip(): leading and trailing whitespace is removed
RECURSIVE Strip(_)
Strip(s) ==
    IF s = <<>> THEN s
    ELSE IF s[1] \in Blanks THEN Strip(Tail(s))
    ELSE IF s[Len(s)] \in Blanks THEN Strip(SubSeq(s, 1, Len(s) - 1))
    ELSE s

safe_name(title) == Strip(CollapseSpaces(ReplaceBad(title)))

\* pipeline.py Job; year "" stands for None (falsy: the segment is omitted)
NoYear == ""

\* plex_base_name with a plausible slip: the name is not passed through safe_name
plex_base_name_raw(job) ==
    job.title
    \o (IF job.year # NoYear THEN <<" ", "(", job.year, ")">> ELSE <<>>)
    \o <<" ", "[", "c", "l", "z", "-", job.clz_index, "]">>
    \o <<" ", "{", "i", "m", "d", "b", "-", job.imdb_id, "}">>

\* pipeline.py plex_base_name
plex_base_name(job) ==
    safe_name(job.title
              \o (IF job.year # NoYear THEN <<" ", "(", job.year, ")">> ELSE <<>>)
              \o <<" ", "[", "c", "l", "z", "-", job.clz_index, "]">>
              \o <<" ", "{", "i", "m", "d", "b", "-", job.imdb_id, "}">>)

\* folder_name with a plausible slip: the time tag is left out of the name
folder_name_untagged(it, tag) == safe_name(<<it.clz_index, "_">> \o it.title)

\* pipeline.py write_job: the marker file holds the four fields of the Job as JSON
write_job(job) ==
    [clz_index |-> job.clz_index, title |-> job.title, year |-> job.year,
     imdb_id |-> job.imdb_id]

\* pipeline.py load_job: Job(clz_index=int(data["clz_index"]), title=data["title"],
\* year=data.get("year"), imdb_id=data["imdb_id"])
load_job(data) ==
    [clz_index |-> data.clz_index, title |-> data.title, year |-> data.year,
     imdb_id |-> data.imdb_id]

\* watcher.py: folder_name = safe_name(f"{clz_index}_{title}_{_now_tag()}")
folder_name(it, tag) == safe_name(<<it.clz_index, "_">> \o it.title \o <<"_", tag>>)

\* Path(keeper.path).suffix: the last element of a file name
Suffix(name) == Last(name)

\* ========================================================= keeper selector
Digits == {"0", "1", "2", "3", "4", "5", "6", "7", "8", "9"}

DigitVal(c) ==
    CASE c = "0" -> 0 [] c = "1" -> 1 [] c = "2" -> 2 [] c = "3" -> 3 [] c = "4" -> 4
      [] c = "5" -> 5 [] c = "6" -> 6 [] c = "7" -> 7 [] c = "8" -> 8 [] c = "9" -> 9

\* re.IGNORECASE on the letters of "angle"
Lower(c) ==
    CASE c = "A" -> "a" [] c = "N" -> "n" [] c = "G" -> "g" [] c = "L" -> "l"
      [] c = "E" -> "e" [] OTHER -> c

NoAngle == -1

\* \s* : the index of the first non-blank element at or after k
RECURSIVE SkipBlanks(_, _)
SkipBlanks(s, k) == IF k <= Len(s) /\ s[k] = " " THEN SkipBlanks(s, k + 1) ELSE k

\* (\d+) : the value of the longest run of digits starting at k, acc so far
RECURSIVE DigitRun(_, _, _)
DigitRun(s, k, acc) ==
    IF k <= Len(s) /\ s[k] \in Digits THEN DigitRun(s, k + 1, acc * 10 + DigitVal(s[k]))
    ELSE acc

\* does r"angle\s*(\d+)" match at position k
AngleAt(s, k) ==
    /\ k + 4 <= Len(s)
    /\ <<Lower(s[k]), Lower(s[k + 1]), Lower(s[k + 2]), Lower(s[k + 3]), Lower(s[k + 4])>>
         = <<"a", "n", "g", "l", "e">>
    /\ LET d == SkipBlanks(s, k + 5) IN d <= Len(s) /\ s[d] \in Digits

\* label_angle with a plausible slip: (\d) instead of (\d+), one digit is read
label_angle_one_digit(name) ==
    LET hits == {k \in 1..Len(name) : AngleAt(name, k)} IN
    IF hits = {} THEN NoAngle
    ELSE LET k == CHOOSE h \in hits : \A g \in hits : h <= g
         IN DigitVal(name[SkipBlanks(name, k + 5)])

\* keeper.py label_angle: ANGLE_RE.search(name), leftmost match
label_angle(name) ==
    LET hits == {k \in 1..Len(name) : AngleAt(name, k)} IN
    IF hits = {} THEN NoAngle
    ELSE LET k == CHOOSE h \in hits : \A g \in hits : h <= g
         IN DigitRun(name, SkipBlanks(name, k + 5), 0)

\* substring tests of audio_score over the codec names of the model
\* codec names as ffprobe_utils.py parse_media_info hands them on: codec_name, lower-cased
TrueHd == <<"t", "r", "u", "e", "h", "d">>
DtsHd == <<"d", "t", "s", "-", "h", "d">>
Dts == <<"d", "t", "s">>
Eac3 == <<"e", "a", "c", "3">>
Ec3 == <<"e", "c", "-", "3">>
Ac3 == <<"a", "c", "3">>
Aac == <<"a", "a", "c">>
AacLatm == <<"a", "a", "c", "_", "l", "a", "t", "m">>
Mp2 == <<"m", "p", "2">>

\* `sub in s` on strings
Contains(s, sub) ==
    \E k \in 0..(Len(s) - Len(sub)) : SubSeq(s, k + 1, k + Len(sub)) = sub

HasTrueHD(c) == Contains(c, TrueHd)
HasDts(c) == Contains(c, Dts)
HasHd(c) == Contains(c, <<"h", "d">>)

\* keeper.py audio_score, one track
CodecPoints(c) ==
    IF HasTrueHD(c) THEN 50
    ELSE IF HasDts(c) /\ HasHd(c) THEN 40
    ELSE IF c = Dts THEN 30
    ELSE IF c \in {Eac3, Ec3} THEN 20
    ELSE IF c = Ac3 THEN 15
    ELSE IF c = Aac THEN 10
    ELSE 5

RECURSIVE audio_score(_)
audio_score(codecs) ==
    IF codecs = <<>> THEN 0 ELSE CodecPoints(Head(codecs)) + audio_score(Tail(codecs))

Max(a, b) == IF a >= b THEN a ELSE b

\* Abs with a plausible slip: the sign is kept
AbsSigned(a) == a

Abs(a) == IF a >= 0 THEN a ELSE -a

\* keeper.py score: size/d + audio/10 + subs/10 + tracks/20 with d = max(duration, 1) and
\* size in units of 1,000,000 bytes; TrackPoints is 20 times the part that is not size/d
TrackPoints(m) == 2 * audio_score(m.audio_codecs) + 2 * m.subtitle_tracks + m.audio_tracks

\* score(a) > score(b), in integers: with da, db the two divisors,
\*   20 * (size_a * db - size_b * da) > (TrackPoints(b) - TrackPoints(a)) * da * db,
\* both sides divided by da (quotient and remainder) to stay within 32 bits
ScoreGreater(a, b) ==
    LET da == Max(a.duration, 1)
        db == Max(b.duration, 1)
        lhs == 20 * (a.size_mb * db - b.size_mb * da)
        rhs == (TrackPoints(b) - TrackPoints(a)) * db
    IN (lhs \div da) > rhs \/ ((lhs \div da) = rhs /\ (lhs % da) > 0)

\* BestByScore with a plausible slip: among equal scores the last of the bucket is taken
BestByScoreLast(bucket) ==
    LET k == CHOOSE k \in 1..Len(bucket) :
                 /\ \A j \in 1..Len(bucket) : ~ScoreGreater(bucket[j], bucket[k])
                 /\ \A j \in (k + 1)..Len(bucket) : ScoreGreater(bucket[k], bucket[j])
    IN bucket[k]

\* sorted(bucket, key=score, reverse=True)[0]: the sort is stable, so the first of the
\* bucket that no other member beats
BestByScore(bucket) ==
    LET k == CHOOSE k \in 1..Len(bucket) :
                 /\ \A j \in 1..Len(bucket) : ~ScoreGreater(bucket[j], bucket[k])
                 /\ \A j \in 1..(k - 1) : ScoreGreater(bucket[k], bucket[j])
                                          \/ ScoreGreater(bucket[j], bucket[k])
    IN bucket[k]

NoKeeper == [path |-> <<>>]

\* pick_keeper with a plausible slip: the minimum duration is not applied
pick_keeper_unfiltered(infos, min_minutes, duration_tol, prefer_angle_1) ==
    LET candidates == infos IN
    IF candidates = <<>> THEN NoKeeper
    ELSE
    LET max_dur == CHOOSE d \in {candidates[k].duration : k \in 1..Len(candidates)} :
                      \A k \in 1..Len(candidates) : candidates[k].duration <= d
        bucket == SelectSeq(candidates, LAMBDA m : 10 * Abs(m.duration - max_dur) <= duration_tol)
        angle1 == {k \in 1..Len(bucket) : label_angle(bucket[k].path) = 1}
    IN IF Len(bucket) = 1 THEN bucket[1]
       ELSE IF prefer_angle_1 /\ angle1 # {}
            THEN bucket[CHOOSE k \in angle1 : \A j \in angle1 : k <= j]
            ELSE BestByScore(bucket)

\* pick_keeper with a plausible slip: `>` instead of `>=` at the minimum duration
pick_keeper_strict(infos, min_minutes, duration_tol, prefer_angle_1) ==
    LET candidates == SelectSeq(infos, LAMBDA m : m.duration > min_minutes * 60) IN
    IF candidates = <<>> THEN NoKeeper
    ELSE
    LET max_dur == CHOOSE d \in {candidates[k].duration : k \in 1..Len(candidates)} :
                      \A k \in 1..Len(candidates) : candidates[k].duration <= d
        bucket == SelectSeq(candidates, LAMBDA m : 10 * Abs(m.duration - max_dur) <= duration_tol)
        angle1 == {k \in 1..Len(bucket) : label_angle(bucket[k].path) = 1}
    IN IF Len(bucket) = 1 THEN bucket[1]
       ELSE IF prefer_angle_1 /\ angle1 # {}
            THEN bucket[CHOOSE k \in angle1 : \A j \in angle1 : k <= j]
            ELSE BestByScore(bucket)

\* keeper.py pick_keeper over the probed files, in probe order; NoKeeper when it raises;
\* durations are whole seconds, the tolerance is given in tenths of a second
pick_keeper(infos, min_minutes, duration_tol, prefer_angle_1) ==
    LET candidates == SelectSeq(infos, LAMBDA m : m.duration >= min_minutes * 60) IN
    IF candidates = <<>> THEN NoKeeper
    ELSE
    LET max_dur == CHOOSE d \in {candidates[k].duration : k \in 1..Len(candidates)} :
                      \A k \in 1..Len(candidates) : candidates[k].duration <= d
        bucket == SelectSeq(candidates, LAMBDA m : 10 * Abs(m.duration - max_dur) <= duration_tol)
        angle1 == {k \in 1..Len(bucket) : label_angle(bucket[k].path) = 1}
    IN IF Len(bucket) = 1 THEN bucket[1]
       ELSE IF prefer_angle_1 /\ angle1 # {}
            THEN bucket[CHOOSE k \in angle1 : \A j \in angle1 : k <= j]
            ELSE BestByScore(bucket)


\* ============================================================ disc monitor
\* What the info call of ripper.py _get_info_text can give, by the state of the drive:
\*   tcount_pos / tcount_zero  the text has TCOUNT:n with n > 0 / n = 0
\*   markers                   no TCOUNT, but CINFO: or TINFO:
\*   no_markers                none of them (the drive list, a non-zero exit)
\*   timeout                   subprocess.TimeoutExpired: ("", True)
\*   error                     any other exception: ("", False)
InfoKinds(d) ==
    IF d THEN {"tcount_pos", "tcount_zero", "markers", "no_markers", "timeout", "error"}
    ELSE {"tcount_zero", "no_markers", "timeout", "error"}

\* ripper.py _drive_has_media: Test-Path succeeds only on a loaded drive; an exception is False
MediaKinds(d) == IF d THEN {TRUE, FALSE} ELSE {FALSE}

\* disc_present with a plausible slip: the drive check counts without a timeout too
disc_present_media_untimed(kind, media) ==
    IF kind \in {"tcount_pos", "tcount_zero"} THEN kind = "tcount_pos"
    ELSE IF kind = "markers" THEN TRUE
    ELSE IF media THEN TRUE
    ELSE FALSE

\* ripper.py disc_present, from the info call's outcome and the drive check
disc_present(kind, media) ==
    IF kind \in {"tcount_pos", "tcount_zero"} THEN kind = "tcount_pos"
    ELSE IF kind = "markers" THEN TRUE
    ELSE IF kind = "timeout" /\ media THEN TRUE
    ELSE FALSE

\* the answers one poll of the drive can give
PollResults(d) == {disc_present(k, m) : k \in InfoKinds(d), m \in MediaKinds(d)}

\* TimeoutOutcomes with a plausible slip: the deadline is never found to have passed
TimeoutNever(n, poll, max_wait) == {FALSE}

\* ripper.py wait_for_disc / wait_for_disc_removed: `max_wait and (time.time() - t0) > max_wait`
\* after `n` sleeps of `poll` seconds and n + 1 polls, each of which takes time
TimeoutOutcomes(n, poll, max_wait) ==
    IF max_wait = 0 THEN {FALSE}
    ELSE IF n * poll >= max_wait THEN {TRUE}
    ELSE {TRUE, FALSE}

\* ============================================================ model inputs
ItemA == [clz_index |-> "10", title |-> <<"A", ":", "B">>, year |-> "1979", imdb_id |-> "tt0078748"]
ItemC == [clz_index |-> "11", title |-> <<"C">>, year |-> NoYear, imdb_id |-> "tt0000002"]
Items == {ItemA, ItemC}

RECURSIVE SeqsUpTo(_, _)
SeqsUpTo(S, n) ==
    IF n = 0 THEN {<<>>}
    ELSE LET shorter == SeqsUpTo(S, n - 1)
         IN shorter \cup {Append(q, x) : q \in {r \in shorter : Len(r) = n - 1}, x \in S}

Queues == SeqsUpTo(Items, MaxQueue)

FMain == [path |-> <<"t", "0", ".mkv">>, duration |-> 6000, size_mb |-> 50,
          audio_codecs |-> <<Ac3>>, audio_tracks |-> 1, subtitle_tracks |-> 1]
FShort == [path |-> <<"t", "1", ".mkv">>, duration |-> 1800, size_mb |-> 90,
           audio_codecs |-> <<TrueHd>>, audio_tracks |-> 1, subtitle_tracks |-> 0]
FAngle == [path |-> <<"A", "n", "g", "l", "e", " ", "1", ".mkv">>, duration |-> 5999,
           size_mb |-> 10, audio_codecs |-> <<Aac>>, audio_tracks |-> 1, subtitle_tracks |-> 0]

\* what a rip can leave in the working folder, in glob order
RipOutputs == {<<>>, <<FShort>>, <<FMain, FAngle>>}

Configs == [auto_eject : BOOLEAN, move_mode : {"move", "copy"}, observed : BOOLEAN,
            prefer_angle_1 : {TRUE}]

DestPath(base, suffix) == [dir |-> base, file |-> base \o <<suffix>>]
PreExisting == [origin |-> "pre", item |-> 0, src |-> <<>>]
PreDests == {{}, {[path |-> DestPath(plex_base_name(ItemA), ".mkv"), content |-> PreExisting]}}

NoFolder == [exists |-> FALSE, name |-> <<>>, job |-> <<>>, files |-> <<>>,
             artifacts |-> {}, receipt |-> <<>>]

WorkingSteps == {"waiting_for_disc", "ripping", "finalizing", "moving", "ejecting"}
Final == {"returned", "raised"}

\* no function is called on its own in the queue run and in the web session
NoCall == [fn |-> "none"]

\* the web session is not part of the queue run's specification
WebIdle ==
    /\ lock = 0 /\ thread = 0 /\ alive = {} /\ web_stop = FALSE
    /\ web_status = [running |-> FALSE, step |-> "idle"]
    /\ req = <<>> /\ wk = <<>> /\ runs = 0

\* =============================================================== queue run
Init ==
    /\ cfg \in Configs
    /\ queue \in Queues
    /\ pc = "start" /\ i = 0 /\ stop_event = FALSE
    /\ waited = 0 /\ fin_polls = 0 /\ ej_calls = 0
    /\ ejected = FALSE /\ removed = FALSE /\ rip_result = <<>>
    /\ clock = 0 /\ statusLog = <<>> /\ error = "none"
    /\ disc \in BOOLEAN /\ disc_new = FALSE
    /\ folders = [k \in 1..Len(queue) |-> NoFolder]
    /\ dest \in PreDests
    /\ dest_dirs = {f.path.dir : f \in dest}
    /\ leftover = FALSE /\ ripped = "none" /\ stop_at_rip = FALSE
    /\ outcome = [k \in 1..Len(queue) |-> "pending"]
    /\ stop_seen_at = "nowhere"
    /\ WebIdle
    /\ call = NoCall

\* should_stop with a plausible slip: the signal is never looked at
should_stop_ignored == FALSE

\* watcher.py should_stop: bool(stop_event and stop_event.is_set())
should_stop == cfg.observed /\ stop_event

\* watcher.py update_status: one call, as the observer receives it
Status(step, running) == [step |-> step, running |-> running, item |-> i]
Emit(step, running) == statusLog' = Append(statusLog, Status(step, running))

\* ObserveStop with a plausible slip: `continue` instead of `return`
ObserveStopAndContinue(where) ==
    /\ Emit("stopped", FALSE)
    /\ pc' = "top"
    /\ stop_seen_at' = where
    /\ outcome' = [k \in DOMAIN outcome |-> IF outcome[k] = "current" THEN "stopped" ELSE outcome[k]]

\* update_status(step="stopped", running=False); return
ObserveStop(where) ==
    /\ Emit("stopped", FALSE)
    /\ pc' = "returned"
    /\ stop_seen_at' = where
    /\ outcome' = [k \in DOMAIN outcome |-> IF outcome[k] = "current" THEN "stopped" ELSE outcome[k]]

\* groups of variables an action leaves alone
input == <<cfg, queue, webVars, call>>
drive == <<disc, disc_new>>
files == <<folders, dest_dirs, dest>>
waits == <<waited, fin_polls, ej_calls, ejected, removed>>
rips == <<leftover, ripped, stop_at_rip>>

\* NextItem with a plausible slip: the index is not advanced, the item is taken up again
NextItemRetry ==
    /\ pc' = "top"
    /\ i' = i
    /\ waited' = 0 /\ fin_polls' = 0 /\ ej_calls' = 0 /\ ejected' = FALSE /\ removed' = FALSE
    /\ leftover' = FALSE /\ ripped' = "none" /\ stop_at_rip' = FALSE

\* `continue`, or the end of the loop body: on to the next item; the locals of the item
\* that is left are dead
NextItem ==
    /\ pc' = "top"
    /\ i' = i + 1
    /\ waited' = 0 /\ fin_polls' = 0 /\ ej_calls' = 0 /\ ejected' = FALSE /\ removed' = FALSE
    /\ leftover' = FALSE /\ ripped' = "none" /\ stop_at_rip' = FALSE

\* LoadQueue with a plausible slip: the empty queue returns without a status
LoadQueueSilent ==
    /\ pc = "start"
    /\ IF queue = <<>>
       THEN pc' = "returned" /\ i' = i /\ UNCHANGED statusLog
       ELSE pc' = "top" /\ i' = 1 /\ UNCHANGED statusLog
    /\ UNCHANGED <<input, drive, files, waits, rips, stop_event, rip_result, clock, error,
                   outcome, stop_seen_at>>

\* queue = load_queue(queue_path); the empty queue returns at once
LoadQueue ==
    /\ pc = "start"
    /\ IF queue = <<>>
       THEN Emit("done", FALSE) /\ pc' = "returned" /\ i' = i
       ELSE pc' = "top" /\ i' = 1 /\ UNCHANGED statusLog
    /\ UNCHANGED <<input, drive, files, waits, rips, stop_event, rip_result, clock, error,
                   outcome, stop_seen_at>>

\* Top with a plausible slip: the stop at the head of the loop leaves the loop by `break`
\* instead of `return`, and the statement after the loop emits done
TopStopBreaks ==
    /\ pc = "top"
    /\ IF i > Len(queue)
       THEN /\ Emit("done", FALSE) /\ pc' = "returned"
            /\ UNCHANGED <<leftover, disc_new, outcome, stop_seen_at>>
       ELSE IF should_stop
       THEN /\ statusLog' = statusLog \o <<Status("stopped", FALSE), Status("done", FALSE)>>
            /\ pc' = "returned"
            /\ stop_seen_at' = "top"
            /\ UNCHANGED <<leftover, disc_new, outcome>>
       ELSE /\ Emit("waiting_for_disc", TRUE)
            /\ pc' = "check_leftover"
            /\ leftover' = disc
            /\ disc_new' = FALSE
            /\ outcome' = [outcome EXCEPT ![i] = "current"]
            /\ UNCHANGED stop_seen_at
    /\ rip_result' = <<>>
    /\ UNCHANGED <<input, disc, files, waits, ripped, stop_at_rip, i, stop_event, clock, error>>

\* for i, it in enumerate(queue, start=1): the head of one iteration, or the end of the loop
Top ==
    /\ pc = "top"
    /\ IF i > Len(queue)
       THEN /\ Emit("done", FALSE) /\ pc' = "returned"
            /\ UNCHANGED <<leftover, disc_new, outcome, stop_seen_at>>
       ELSE IF should_stop
       THEN ObserveStop("top") /\ UNCHANGED <<leftover, disc_new>>
       ELSE /\ Emit("waiting_for_disc", TRUE)
            /\ pc' = "check_leftover"
            /\ leftover' = disc
            /\ disc_new' = FALSE
            /\ outcome' = [outcome EXCEPT ![i] = "current"]
            /\ UNCHANGED stop_seen_at
    /\ rip_result' = <<>>
    /\ UNCHANGED <<input, disc, files, waits, ripped, stop_at_rip, i, stop_event, clock, error>>

\* if disc_present(...): a disc is already in the drive
CheckLeftover ==
    /\ pc = "check_leftover"
    /\ \E r \in PollResults(disc) :
          pc' = IF r THEN "leftover_wait" ELSE "wait_insert"
    /\ UNCHANGED <<input, drive, files, waits, rips, i, stop_event, rip_result, clock,
                   statusLog, error, outcome, stop_seen_at>>

\* while disc_present(...): if should_stop(): ... return; time.sleep(2)
LeftoverWait ==
    /\ pc = "leftover_wait"
    /\ \E r \in PollResults(disc) :
          IF ~r THEN pc' = "wait_insert" /\ UNCHANGED <<statusLog, stop_seen_at, outcome>>
          ELSE IF should_stop THEN ObserveStop("leftover_wait")
          ELSE UNCHANGED <<pc, statusLog, stop_seen_at, outcome>>
    /\ UNCHANGED <<input, drive, files, waits, rips, i, stop_event, rip_result, clock, error>>

\* rip_folder.mkdir(...); write_job(rip_folder, job); update_status(step="ripping");
\* rip_disc_all_titles(...) is invoked on the disc that is in the drive
StartRip ==
    /\ clock' = clock + 1
    /\ folders' = [folders EXCEPT ![i] =
                      [exists |-> TRUE,
                       name |-> folder_name(queue[i], ToString(clock + 1)),
                       job |-> <<write_job(queue[i])>>,
                       files |-> <<>>, artifacts |-> {}, receipt |-> <<>>]]
    /\ Emit("ripping", TRUE)
    /\ ripped' = IF disc_new THEN "new" ELSE "leftover"
    /\ stop_at_rip' = stop_event
    /\ pc' = "ripping"

\* while not wait_for_disc(..., poll_seconds=3, max_wait_seconds=3): if should_stop(): return
\* one poll of wait_for_disc; a disc seen leads straight to the rip
WaitInsert ==
    /\ pc = "wait_insert"
    /\ \E r \in PollResults(disc), late \in TimeoutOutcomes(waited, WaitPollSeconds, WaitMaxSeconds) :
          IF r
          THEN /\ StartRip
               /\ waited' = 0
               /\ UNCHANGED <<outcome, stop_seen_at>>
          ELSE IF late
          THEN /\ waited' = 0
               /\ IF should_stop THEN ObserveStop("wait_insert")
                  ELSE UNCHANGED <<pc, statusLog, outcome, stop_seen_at>>
               /\ UNCHANGED <<clock, folders, ripped, stop_at_rip>>
          ELSE /\ waited' = waited + 1
               /\ UNCHANGED <<pc, statusLog, outcome, stop_seen_at, clock, folders, ripped,
                              stop_at_rip>>
    /\ UNCHANGED <<input, drive, dest_dirs, dest, fin_polls, ej_calls, ejected, removed,
                   leftover, i, stop_event, rip_result, error>>

\* rc, out, err = rip_disc_all_titles(...): the external tool ends; exit code and output
\* files are independent of each other
RipReturns ==
    /\ pc = "ripping"
    /\ \E rc \in {0, 1}, out \in RipOutputs :
          /\ rip_result' = <<[rc |-> rc]>>
          /\ folders' = [folders EXCEPT ![i].files = out]
    /\ pc' = "rip_returned"
    /\ UNCHANGED <<input, drive, dest_dirs, dest, waits, rips, i, stop_event, clock,
                   statusLog, error, outcome, stop_seen_at>>

\* ripper.py try_eject: its answer, and whether the disc left the drive
EjectResults == {[ok |-> ok, disc |-> d] : ok \in BOOLEAN, d \in {disc, FALSE}}

\* ShouldSkip with a plausible slip: the exit code is trusted as a failure signal
ShouldSkipOnExitCode(mkvs, rc) == mkvs = <<>> \/ rc # 0

\* mkvs = list(rip_folder.glob("*.mkv")); if not mkvs: skip the item
ShouldSkip(mkvs, rc) == mkvs = <<>>

\* _makemkv_stdout.txt, _makemkv_stderr.txt, _makemkv_returncode.txt
Artifacts == {"stdout", "stderr", "returncode"}

\* AfterRip with a plausible slip: the artifacts are written after the skip test, and so
\* only for an item that is not skipped
AfterRipArtifactsLate ==
    /\ pc = "rip_returned"
    /\ IF ShouldSkip(folders[i].files, rip_result[1].rc)
       THEN /\ outcome' = [outcome EXCEPT ![i] = "skipped"]
            /\ \E e \in EjectResults : disc' = IF cfg.auto_eject THEN e.disc ELSE disc
            /\ disc_new' = (disc' /\ disc_new)
            /\ NextItem
            /\ UNCHANGED <<statusLog, folders>>
       ELSE /\ folders' = [folders EXCEPT ![i].artifacts = Artifacts]
            /\ Emit("finalizing", TRUE)
            /\ pc' = "finalizing"
            /\ UNCHANGED <<outcome, drive, i, waits, rips>>
    /\ UNCHANGED <<input, dest_dirs, dest, stop_event, rip_result, clock, error, stop_seen_at>>

\* the three artifacts are written, then the output files are examined
AfterRip ==
    /\ pc = "rip_returned"
    /\ folders' = [folders EXCEPT ![i].artifacts = Artifacts]
    /\ IF ShouldSkip(folders[i].files, rip_result[1].rc)
       THEN /\ outcome' = [outcome EXCEPT ![i] = "skipped"]
            /\ \E e \in EjectResults : disc' = IF cfg.auto_eject THEN e.disc ELSE disc
            /\ disc_new' = (disc' /\ disc_new)
            /\ NextItem
            /\ UNCHANGED statusLog
       ELSE /\ Emit("finalizing", TRUE)
            /\ pc' = "finalizing"
            /\ UNCHANGED <<outcome, drive, i, waits, rips>>
    /\ UNCHANGED <<input, dest_dirs, dest, stop_event, rip_result, clock, error, stop_seen_at>>

\* while time.time() - t0 < 1800: if should_stop(): return; if is_idle(...): break; sleep(5)
\* then update_status(step="moving")
FinalizePoll ==
    /\ pc = "finalizing"
    /\ IF fin_polls >= MaxFinalizePolls
       THEN /\ Emit("moving", TRUE) /\ pc' = "moving"
            /\ UNCHANGED <<fin_polls, outcome, stop_seen_at>>
       ELSE IF should_stop
       THEN ObserveStop("finalizing") /\ UNCHANGED fin_polls
       ELSE \E idle \in BOOLEAN :
               IF idle
               THEN /\ Emit("moving", TRUE) /\ pc' = "moving"
                    /\ UNCHANGED <<fin_polls, outcome, stop_seen_at>>
               ELSE /\ fin_polls' = fin_polls + 1
                    /\ UNCHANGED <<pc, statusLog, outcome, stop_seen_at>>
    /\ UNCHANGED <<input, drive, files, waited, ej_calls, ejected, removed, rips, i,
                   stop_event, rip_result, clock, error>>

\* DestExists with a plausible slip: the check is missing
DestExistsUnchecked(dp) == FALSE

\* DestExists with a plausible slip: the directory is looked up instead of the file
DestExistsWrongPath(dp) == \E f \in dest : f.path = [dir |-> dp.dir, file |-> dp.dir]

\* pipeline.py: if dest_path.exists(): raise RuntimeError("Destination already exists")
DestExists(dp) == \E f \in dest : f.path = dp

\* WriteDest with a plausible slip: nothing is copied or moved to the destination
WriteDestSkipped(dp, content) == dest

\* shutil.copy2 / shutil.move onto dest_path: a file that is there is replaced
WriteDest(dp, content) == {f \in dest : f.path # dp} \cup {[path |-> dp, content |-> content]}

\* shutil.move takes the keeper out of the working folder, shutil.copy2 leaves it there
FilesAfter(fs, keeper, move_mode) ==
    IF move_mode = "copy" THEN fs ELSE SelectSeq(fs, LAMBDA m : m.path # keeper.path)

\* the Receipt of pipeline.py process_rip_folder_to_staging
Receipt(k, keeper, dp) ==
    [rip_folder |-> folders[k].name,
     keeper_source |-> <<folders[k].name, keeper.path>>,
     keeper_dest |-> dp,
     clz_index |-> folders[k].job[1].clz_index,
     title |-> folders[k].job[1].title,
     year |-> folders[k].job[1].year,
     imdb_id |-> folders[k].job[1].imdb_id]

\* an exception leaves process_rip_folder_to_staging, and run_queue with it
Raise(what) ==
    /\ error' = what
    /\ pc' = "raised"
    /\ outcome' = [outcome EXCEPT ![i] = "failed"]
    /\ UNCHANGED <<folders, dest, statusLog, drive, i, waits, rips>>

\* AfterMove with a plausible slip: the eject is done whether auto_eject is set or not
AfterMoveEjectUnasked ==
    /\ Emit("ejecting", TRUE)
    /\ \E e \in EjectResults : ejected' = e.ok /\ disc' = e.disc
    /\ disc_new' = (disc' /\ disc_new)
    /\ pc' = "eject_wait"
    /\ UNCHANGED <<i, waited, fin_polls, ej_calls, removed, rips>>

\* after the move: if auto_eject: update_status(step="ejecting"); ejected = try_eject(...)
AfterMove ==
    IF cfg.auto_eject
    THEN /\ Emit("ejecting", TRUE)
         /\ \E e \in EjectResults : ejected' = e.ok /\ disc' = e.disc
         /\ disc_new' = (disc' /\ disc_new)
         /\ pc' = "eject_wait"
         /\ UNCHANGED <<i, waited, fin_polls, ej_calls, removed, rips>>
    ELSE /\ NextItem
         /\ UNCHANGED <<statusLog, drive>>

\* dest = process_rip_folder_to_staging(...): probe, pick the keeper, name the destination,
\* refuse an existing destination, copy or move, write the Receipt
Move ==
    /\ pc = "moving"
    /\ \E probe_ok \in BOOLEAN :
          LET keeper == pick_keeper(folders[i].files, MinMinutesMain, DurationTolTenths, cfg.prefer_angle_1)
              base == plex_base_name(folders[i].job[1])
              dp == DestPath(base, Suffix(keeper.path))
          IN IF ~probe_ok
             THEN Raise("probe_failed") /\ UNCHANGED dest_dirs
             ELSE IF keeper.path = <<>>
             THEN Raise("no_candidate") /\ UNCHANGED dest_dirs
             ELSE /\ dest_dirs' = dest_dirs \cup {base}
                  /\ IF DestExists(dp)
                     THEN Raise("destination_exists")
                     ELSE /\ dest' = WriteDest(dp, [origin |-> "rip", item |-> i,
                                                      src |-> keeper.path])
                          /\ folders' = [folders EXCEPT
                                           ![i].files = FilesAfter(@, keeper, cfg.move_mode),
                                           ![i].receipt = <<Receipt(i, keeper, dp)>>]
                          /\ outcome' = [outcome EXCEPT ![i] = "moved"]
                          /\ error' = error
                          /\ AfterMove
    /\ UNCHANGED <<input, stop_event, rip_result, clock, stop_seen_at>>

\* the eject wait, loop head: if should_stop(): ... return; else call wait_for_disc_removed
EjectWait ==
    /\ pc = "eject_wait"
    /\ IF should_stop
       THEN ObserveStop("eject_wait")
       ELSE pc' = "removed_wait" /\ UNCHANGED <<statusLog, outcome, stop_seen_at>>
    /\ UNCHANGED <<input, drive, files, waits, rips, i, stop_event, rip_result, clock, error>>

\* `if time.time() - t0 > 60: break` after `n` calls of wait_for_disc_removed that timed out
EjectDeadline(n) == IF n >= MaxEjectCalls THEN {TRUE} ELSE {TRUE, FALSE}

\* if not ejected or not removed: warn; if not status_callback: input("Press Enter ...")
AfterEject(was_removed) ==
    IF (~ejected \/ ~was_removed) /\ ~cfg.observed
    THEN /\ pc' = "await_operator"
         /\ removed' = was_removed
         /\ waited' = 0
         /\ UNCHANGED <<i, fin_polls, ej_calls, ejected, rips>>
    ELSE NextItem

\* removed = wait_for_disc_removed(..., poll_seconds=2, timeout_seconds=2): one poll of it
RemovedPoll ==
    /\ pc = "removed_wait"
    /\ \E r \in PollResults(disc),
          late \in TimeoutOutcomes(waited, RemovedPollSeconds, RemovedTimeoutSeconds) :
          IF ~r
          THEN AfterEject(TRUE)
          ELSE IF late
          THEN \E over \in EjectDeadline(ej_calls + 1) :
                  IF over THEN AfterEject(FALSE)
                  ELSE /\ pc' = "eject_wait"
                       /\ removed' = FALSE
                       /\ ej_calls' = ej_calls + 1
                       /\ waited' = 0
                       /\ UNCHANGED <<i, fin_polls, ejected, rips>>
          ELSE /\ waited' = waited + 1
               /\ UNCHANGED <<pc, i, fin_polls, ej_calls, ejected, removed, rips>>
    /\ UNCHANGED <<input, drive, files, stop_event, rip_result, clock, statusLog, error,
                   outcome, stop_seen_at>>

\* the operator presses Enter at the prompt of the command-line run
OperatorAck ==
    /\ pc = "await_operator"
    /\ NextItem
    /\ UNCHANGED <<input, drive, files, stop_event, rip_result, clock, statusLog, error,
                   outcome, stop_seen_at>>

\* ---------------------------------------------------------- the environment
\* webapp/app.py api_run_stop: STATE.stop_event.set(); only an observed run has the signal
Stop ==
    /\ cfg.observed /\ ~stop_event /\ pc \notin Final
    /\ stop_event' = TRUE
    /\ UNCHANGED <<input, drive, files, waits, rips, pc, i, rip_result, clock, statusLog,
                   error, outcome, stop_seen_at>>

\* The drive is read at these positions only (the polls, and the head of an item); what the
\* operator does to the drive at any other position shows at the next of these, so the
\* operator's actions are taken there.
DriveWatched == {"top", "check_leftover", "leftover_wait", "wait_insert", "eject_wait",
                 "removed_wait"}

\* the operator puts a disc in the drive
InsertDisc ==
    /\ ~disc /\ pc \in DriveWatched
    /\ disc' = TRUE
    /\ disc_new' = TRUE
    /\ UNCHANGED <<input, files, waits, rips, pc, i, stop_event, rip_result, clock,
                   statusLog, error, outcome, stop_seen_at>>

\* the operator takes the disc out of the drive
RemoveDisc ==
    /\ disc /\ pc \in DriveWatched
    /\ disc' = FALSE
    /\ disc_new' = FALSE
    /\ UNCHANGED <<input, files, waits, rips, pc, i, stop_event, rip_result, clock,
                   statusLog, error, outcome, stop_seen_at>>

Worker ==
    \/ LoadQueue \/ Top \/ CheckLeftover \/ LeftoverWait \/ WaitInsert \/ RipReturns
    \/ AfterRip \/ FinalizePoll \/ Move \/ EjectWait \/ RemovedPoll

Next == Worker \/ OperatorAck \/ Stop \/ InsertDisc \/ RemoveDisc

Spec == Init /\ [][Next]_vars

\* the worker thread is scheduled, and an external tool that was invoked ends
FairSpec == Spec /\ WF_vars(Worker)

\* ========================================================= web run session
\* webapp/app.py: the endpoints run/start, run/stop and status, each served by a request
\* handler thread, and the worker threads run/start launches. Of a worker the session
\* sees its status updates, its reads of the stop flag and its end; these follow
\* run_queue. Of the status record the keys step, running and queue_path are kept.
Handlers == 1..MaxHandlers

\* the config file a run/start request names:
\*   missing       no such file                          FileNotFoundError
\*   bad_json      not JSON                              json.JSONDecodeError
\*   not_object    JSON, but no object (null, 5, [1])    dict(config_json) raises
\*   no_roots      an object without the two roots       report["valid"] is false
\*   legacy_roots  rip_prep_root and rip_staging_root    valid
\*   new_roots     rips_staging_root, final_movies_root  valid
CfgKinds == {"missing", "bad_json", "not_object", "no_roots", "legacy_roots", "new_roots"}

Idle == [kind |-> "idle", pc |-> "idle", cfg |-> "none", resp |-> 0]

WebInit ==
    /\ lock = 0 /\ thread = 0 /\ alive = {} /\ web_stop = FALSE
    /\ web_status = [running |-> FALSE, step |-> "idle"]
    /\ req = [h \in Handlers |-> Idle]
    /\ wk = [w \in 1..MaxRuns |-> [pc |-> "unborn", emit |-> "none", left |-> 0, cfg |-> "none"]]
    /\ runs = 0
    /\ cfg = [auto_eject |-> TRUE, move_mode |-> "move", observed |-> TRUE, prefer_angle_1 |-> TRUE]
    /\ queue = <<>>
    /\ pc = "start" /\ i = 0 /\ stop_event = FALSE
    /\ waited = 0 /\ fin_polls = 0 /\ ej_calls = 0
    /\ ejected = FALSE /\ removed = FALSE /\ rip_result = <<>>
    /\ clock = 0 /\ statusLog = <<>> /\ error = "none"
    /\ disc = FALSE /\ disc_new = FALSE
    /\ folders = <<>> /\ dest = {} /\ dest_dirs = {}
    /\ leftover = FALSE /\ ripped = "none" /\ stop_at_rip = FALSE
    /\ outcome = <<>>
    /\ stop_seen_at = "nowhere"
    /\ call = NoCall

\* dict.update: the keys of `u` are set, the other keys of `s` stay
DictUpdate(s, u) ==
    [k \in DOMAIN s \cup DOMAIN u |-> IF k \in DOMAIN u THEN u[k] ELSE s[k]]

\* ThreadAlive with a plausible slip: the running worker is not looked at
ThreadAliveUnchecked == FALSE

\* app.py api_run_start: STATE.thread and STATE.thread.is_alive()
ThreadAlive == thread # 0 /\ thread \in alive

\* app.py api_run_start, from the config path to the validation report: the HTTP status the
\* request ends with, 0 when the run may start
ConfigResponse(kind) ==
    IF kind \in {"missing", "bad_json"} THEN 400
    ELSE IF kind = "not_object" THEN 500
    ELSE IF kind = "no_roots" THEN 400
    ELSE 0

\* the run/start requests that may still launch a worker
StartsUnderWay ==
    {h \in Handlers : req[h].kind = "start" /\ req[h].pc \in {"s_lock", "s_clear", "s_spawn"}}

\* a request arrives at a free handler; the runs of a session are capped at MaxRuns
Arrive(h) ==
    /\ req[h].kind = "idle"
    /\ \E r \in {[kind |-> "start", pc |-> "s_lock", cfg |-> "none", resp |-> 0],
                 [kind |-> "stop", pc |-> "p_set", cfg |-> "none", resp |-> 0],
                 [kind |-> "status", pc |-> "t_lock", cfg |-> "none", resp |-> 0]} :
          /\ r.kind = "start" => runs + Cardinality(StartsUnderWay) < MaxRuns
          /\ req' = [req EXCEPT ![h] = r]
    /\ UNCHANGED <<lock, thread, alive, web_stop, web_status, wk, runs, runVars>>

\* the response to a run/start is sent, the handler is free again (run/stop and status
\* answer 200 in the step that ends them)
Respond(h) ==
    /\ req[h].pc = "respond"
    /\ req' = [req EXCEPT ![h] = Idle]
    /\ UNCHANGED <<lock, thread, alive, web_stop, web_status, wk, runs, runVars>>

\* api_run_start: with STATE.lock: the running-worker check (409), then the config file
\* is read and validated (400); `c` is what the file holds at that moment
StartCheck(h) ==
    /\ req[h].kind = "start" /\ req[h].pc = "s_lock"
    /\ lock = 0
    /\ IF ThreadAlive
       THEN req' = [req EXCEPT ![h].pc = "respond", ![h].resp = 409] /\ UNCHANGED lock
       ELSE \E c \in CfgKinds :
               IF ConfigResponse(c) # 0
               THEN /\ req' = [req EXCEPT ![h].pc = "respond", ![h].cfg = c,
                                          ![h].resp = ConfigResponse(c)]
                    /\ UNCHANGED lock
               ELSE /\ req' = [req EXCEPT ![h].pc = "s_clear", ![h].cfg = c]
                    /\ lock' = h
    /\ UNCHANGED <<thread, alive, web_stop, web_status, wk, runs, runVars>>

\* StartingStatus with a plausible slip: the new status holds the queue path only
StartingStatusBare == [queue_path |-> "q"]

\* STATE.status = {"running": True, "step": "starting", "queue_path": queue_path}
StartingStatus == [running |-> TRUE, step |-> "starting", queue_path |-> "q"]

\* STATE.stop_event.clear(); STATE.status = {"running": True, "step": "starting", ...}
StartClear(h) ==
    /\ req[h].kind = "start" /\ req[h].pc = "s_clear"
    /\ web_stop' = FALSE
    /\ web_status' = StartingStatus
    /\ req' = [req EXCEPT ![h].pc = "s_spawn"]
    /\ UNCHANGED <<lock, thread, alive, wk, runs, runVars>>

\* STATE.thread = t; t.start()
StartSpawn(h) ==
    /\ req[h].kind = "start" /\ req[h].pc = "s_spawn"
    /\ runs' = runs + 1
    /\ thread' = runs + 1
    /\ alive' = alive \cup {runs + 1}
    /\ wk' = [wk EXCEPT ![runs + 1] = [pc |-> "begin", emit |-> "none", left |-> 0,
                                       cfg |-> req[h].cfg]]
    /\ req' = [req EXCEPT ![h].pc = "s_release", ![h].cfg = "none"]
    /\ UNCHANGED <<lock, web_stop, web_status, runVars>>

\* StartRelease with a plausible slip: the handler returns without releasing the lock
StartReturnsLocked(h) ==
    /\ req[h].kind = "start" /\ req[h].pc = "s_release"
    /\ req' = [req EXCEPT ![h].pc = "respond", ![h].resp = 200]
    /\ UNCHANGED <<lock, thread, alive, web_stop, web_status, wk, runs, runVars>>

\* the end of `with STATE.lock`; return {"started": True}
StartRelease(h) ==
    /\ req[h].kind = "start" /\ req[h].pc = "s_release"
    /\ lock' = 0
    /\ req' = [req EXCEPT ![h].pc = "respond", ![h].resp = 200]
    /\ UNCHANGED <<thread, alive, web_stop, web_status, wk, runs, runVars>>

\* api_run_stop: STATE.stop_event.set(), outside the lock
StopSet(h) ==
    /\ req[h].kind = "stop" /\ req[h].pc = "p_set"
    /\ web_stop' = TRUE
    /\ req' = [req EXCEPT ![h].pc = "p_lock"]
    /\ UNCHANGED <<lock, thread, alive, web_status, wk, runs, runVars>>

\* api_run_stop: with STATE.lock: STATE.status.update({"running": False, "step": "stopped"})
StopStatus(h) ==
    /\ req[h].kind = "stop" /\ req[h].pc = "p_lock"
    /\ lock = 0
    /\ web_status' = DictUpdate(web_status, [running |-> FALSE, step |-> "stopped"])
    /\ req' = [req EXCEPT ![h] = Idle]
    /\ UNCHANGED <<lock, thread, alive, web_stop, wk, runs, runVars>>

\* api_status: with STATE.lock: return dict(STATE.status)
StatusRead(h) ==
    /\ req[h].kind = "status" /\ req[h].pc = "t_lock"
    /\ lock = 0
    /\ req' = [req EXCEPT ![h] = Idle]
    /\ UNCHANGED <<lock, thread, alive, web_stop, web_status, wk, runs, runVars>>

\* ---- the worker thread: run_queue(cfg, queue_path, stop_event, _status_callback)
WkVars == <<lock, thread, web_stop, req, runs, runVars>>

\* an uncaught exception ends the thread; the status record is left as it was
WkDie(w) ==
    /\ wk' = [wk EXCEPT ![w] = [pc |-> "dead", emit |-> "none", left |-> 0, cfg |-> "none"]]
    /\ alive' = alive \ {w}

\* run_queue up to the loop: the roots are read from cfg under their legacy names
\* (KeyError when the config has the new names only), then the queue file is loaded
WkBegin(w) ==
    /\ w \in alive /\ wk[w].pc = "begin" /\ wk[w].emit = "none"
    /\ IF wk[w].cfg = "new_roots"
       THEN WkDie(w)
       ELSE \E n \in -1..MaxWebItems :
               IF n = -1
               THEN WkDie(w)
               ELSE /\ wk' = [wk EXCEPT ![w].pc = "top", ![w].left = n, ![w].cfg = "none"]
                    /\ UNCHANGED alive
    /\ UNCHANGED <<web_status, WkVars>>

\* the top of the loop: should_stop(), else the waiting_for_disc status; after the last
\* item the done status
WkTop(w) ==
    /\ w \in alive /\ wk[w].pc = "top" /\ wk[w].emit = "none"
    /\ wk' = [wk EXCEPT ![w] =
                 IF wk[w].left = 0 THEN [@ EXCEPT !.emit = "done", !.pc = "exit"]
                 ELSE IF web_stop THEN [@ EXCEPT !.emit = "stopped", !.pc = "exit"]
                 ELSE [@ EXCEPT !.emit = "waiting_for_disc", !.pc = "waiting"]]
    /\ UNCHANGED <<alive, web_status, WkVars>>

\* _status_callback: with STATE.lock: STATE.status.update(update)
WkEmit(w) ==
    /\ w \in alive /\ wk[w].emit # "none"
    /\ lock = 0
    /\ web_status' = DictUpdate(web_status,
                         [step |-> wk[w].emit,
                          running |-> wk[w].emit \notin {"done", "stopped"}])
    /\ wk' = [wk EXCEPT ![w].emit = "none"]
    /\ UNCHANGED <<alive, WkVars>>

\* the two disc waits: a poll that ends the wait starts the rip, a poll that does not
\* looks at the stop flag
WkWait(w) ==
    /\ w \in alive /\ wk[w].pc = "waiting" /\ wk[w].emit = "none"
    /\ \E found \in BOOLEAN :
          wk' = [wk EXCEPT ![w] =
                    IF found THEN [@ EXCEPT !.emit = "ripping", !.pc = "ripping"]
                    ELSE IF web_stop THEN [@ EXCEPT !.emit = "stopped", !.pc = "exit"]
                    ELSE @]
    /\ UNCHANGED <<alive, web_status, WkVars>>

\* the rip returns: without an .mkv the item is skipped, else finalizing
WkRip(w) ==
    /\ w \in alive /\ wk[w].pc = "ripping" /\ wk[w].emit = "none"
    /\ \E some \in BOOLEAN :
          wk' = [wk EXCEPT ![w] =
                    IF some THEN [@ EXCEPT !.emit = "finalizing", !.pc = "finalizing"]
                    ELSE [@ EXCEPT !.left = @ - 1, !.pc = "top"]]
    /\ UNCHANGED <<alive, web_status, WkVars>>

\* the finalize wait: the ceiling, the stop flag, the idle test
WkFinalize(w) ==
    /\ w \in alive /\ wk[w].pc = "finalizing" /\ wk[w].emit = "none"
    /\ \E ceiling \in BOOLEAN, idle \in BOOLEAN :
          wk' = [wk EXCEPT ![w] =
                    IF ceiling THEN [@ EXCEPT !.emit = "moving", !.pc = "moving"]
                    ELSE IF web_stop THEN [@ EXCEPT !.emit = "stopped", !.pc = "exit"]
                    ELSE IF idle THEN [@ EXCEPT !.emit = "moving", !.pc = "moving"]
                    ELSE @]
    /\ UNCHANGED <<alive, web_status, WkVars>>

\* process_rip_folder_to_staging: it raises, or the item is moved; then, if auto_eject,
\* the eject follows
WkMove(w) ==
    /\ w \in alive /\ wk[w].pc = "moving" /\ wk[w].emit = "none"
    /\ \E ok \in BOOLEAN, auto_eject \in BOOLEAN :
          IF ok
          THEN /\ wk' = [wk EXCEPT ![w] =
                            IF auto_eject THEN [@ EXCEPT !.emit = "ejecting", !.pc = "ejecting"]
                            ELSE [@ EXCEPT !.left = @ - 1, !.pc = "top"]]
               /\ UNCHANGED alive
          ELSE WkDie(w)
    /\ UNCHANGED <<web_status, WkVars>>

\* the eject wait: the stop flag, else the disc is out or not yet
WkEject(w) ==
    /\ w \in alive /\ wk[w].pc = "ejecting" /\ wk[w].emit = "none"
    /\ \E out \in BOOLEAN :
          wk' = [wk EXCEPT ![w] =
                    IF web_stop THEN [@ EXCEPT !.emit = "stopped", !.pc = "exit"]
                    ELSE IF out THEN [@ EXCEPT !.left = @ - 1, !.pc = "top"]
                    ELSE @]
    /\ UNCHANGED <<alive, web_status, WkVars>>

\* run_queue has returned: the thread ends
WkExit(w) ==
    /\ w \in alive /\ wk[w].pc = "exit" /\ wk[w].emit = "none"
    /\ WkDie(w)
    /\ UNCHANGED <<web_status, WkVars>>

WebNext ==
    \/ \E h \in Handlers : Arrive(h)
    \/ \E h \in Handlers : Respond(h)
    \/ \E h \in Handlers : StartCheck(h)
    \/ \E h \in Handlers : StartClear(h)
    \/ \E h \in Handlers : StartSpawn(h)
    \/ \E h \in Handlers : StartRelease(h)
    \/ \E h \in Handlers : StopSet(h)
    \/ \E h \in Handlers : StopStatus(h)
    \/ \E h \in Handlers : StatusRead(h)
    \/ \E w \in 1..MaxRuns : WkBegin(w)
    \/ \E w \in 1..MaxRuns : WkTop(w)
    \/ \E w \in 1..MaxRuns : WkEmit(w)
    \/ \E w \in 1..MaxRuns : WkWait(w)
    \/ \E w \in 1..MaxRuns : WkRip(w)
    \/ \E w \in 1..MaxRuns : WkFinalize(w)
    \/ \E w \in 1..MaxRuns : WkMove(w)
    \/ \E w \in 1..MaxRuns : WkEject(w)
    \/ \E w \in 1..MaxRuns : WkExit(w)

WebSpec == WebInit /\ [][WebNext]_vars

\* the steps of a handler thread after its request has arrived (at most one of them is
\* possible at a time: each is guarded by the handler's position)
HandlerStep(h) ==
    \/ StartCheck(h) \/ StartClear(h) \/ StartSpawn(h) \/ StartRelease(h)
    \/ StopStatus(h) \/ StatusRead(h)

\* the server's handler threads and the worker thread are scheduled: a step that stays
\* possible is taken (a step waiting for STATE.lock is possible once the lock is free)
FairWebSpec ==
    /\ WebSpec
    /\ \A h \in Handlers : WF_vars(HandlerStep(h))
    /\ \A w \in 1..MaxRuns : WF_vars(WkEmit(w))

\* ========================================================== function calls
\* One function of the program is called on arguments drawn from bounded sets; `call` holds
\* the arguments and the result. The queue run and the web session are at rest.
RunAtRest ==
    /\ cfg = [auto_eject |-> TRUE, move_mode |-> "move", observed |-> TRUE, prefer_angle_1 |-> TRUE]
    /\ queue = <<>>
    /\ pc = "start" /\ i = 0 /\ stop_event = FALSE
    /\ fin_polls = 0 /\ ej_calls = 0
    /\ ejected = FALSE /\ removed = FALSE /\ rip_result = <<>>
    /\ clock = 0 /\ statusLog = <<>> /\ error = "none"
    /\ disc_new = FALSE
    /\ folders = <<>> /\ dest = {} /\ dest_dirs = {}
    /\ leftover = FALSE /\ ripped = "none" /\ stop_at_rip = FALSE
    /\ outcome = <<>>
    /\ stop_seen_at = "nowhere"

FnInit == RunAtRest /\ WebIdle /\ disc = FALSE /\ waited = 0 /\ call = NoCall

\* ---- pick_keeper(mkv_paths, ...)
FAngle10 == [path |-> <<"a", "n", "g", "l", "e", "1", "0", ".mkv">>, duration |-> 6000,
             size_mb |-> 20, audio_codecs |-> <<Ac3>>, audio_tracks |-> 1, subtitle_tracks |-> 0]
FRich == [path |-> <<"t", "2", ".mkv">>, duration |-> 5997, size_mb |-> 900,
          audio_codecs |-> <<TrueHd, DtsHd>>, audio_tracks |-> 2, subtitle_tracks |-> 3]
FEdge == [path |-> <<"t", "3", ".mkv">>, duration |-> 2700, size_mb |-> 5,
          audio_codecs |-> <<Aac>>, audio_tracks |-> 1, subtitle_tracks |-> 0]

FBelow == [path |-> <<"t", "4", ".mkv">>, duration |-> 2699, size_mb |-> 900,
           audio_codecs |-> <<TrueHd>>, audio_tracks |-> 1, subtitle_tracks |-> 2]

FAngle01 == [path |-> <<"A", "N", "G", "L", "E", " ", " ", "0", "1", ".mkv">>, duration |-> 6000,
             size_mb |-> 30, audio_codecs |-> <<Aac>>, audio_tracks |-> 1, subtitle_tracks |-> 0]

\* a second title with the streams, the length and the size of FMain
FTwin == [path |-> <<"t", "5", ".mkv">>, duration |-> 6000, size_mb |-> 50,
          audio_codecs |-> <<Ac3>>, audio_tracks |-> 1, subtitle_tracks |-> 1]

\* the files a folder can hold, as ffprobe describes them
KeeperFiles == {FMain, FAngle, FShort, FAngle10, FRich, FEdge, FBelow, FAngle01, FTwin}

\* ffprobe_utils.py run_ffprobe / parse_media_info on one file: the tool exits non-zero
\* (RuntimeError), its output is not JSON (json.loads raises), or the MediaInfo is built
ProbeKinds == {"ok", "exit_nonzero", "malformed"}

\* mkv_paths: up to n files with what their probe will give
MkvSets(n) == SeqsUpTo([info : KeeperFiles, probe : ProbeKinds], n)

Infos(mkvs) == [k \in 1..Len(mkvs) |-> mkvs[k].info]

\* keeper.py pick_keeper as called: infos = [parse_media_info(p) for p in mkv_paths], an
\* exception of one probe leaves the comprehension and pick_keeper; then the selection
pick_keeper_call(mkvs, min_minutes, duration_tol, prefer_angle_1) ==
    IF \E k \in 1..Len(mkvs) : mkvs[k].probe # "ok"
    THEN [raised |-> "probe_failed", file |-> <<>>]
    ELSE LET r == pick_keeper(Infos(mkvs), min_minutes, duration_tol, prefer_angle_1)
         IN IF r.path = <<>> THEN [raised |-> "no_candidate", file |-> <<>>]
            ELSE [raised |-> "none", file |-> <<r>>]

CallPickKeeper ==
    /\ call = NoCall
    /\ \E m \in MkvSets(MaxFiles), mm \in {0, MinMinutesMain}, p \in BOOLEAN :
          call' = [fn |-> "pick_keeper", mkvs |-> m, min_minutes |-> mm, prefer |-> p,
                   ret |-> pick_keeper_call(m, mm, DurationTolTenths, p)]
    /\ UNCHANGED <<cfg, queue, pc, i, stop_event, waited, fin_polls, ej_calls, ejected,
                   removed, rip_result, clock, statusLog, error, disc, disc_new, folders,
                   dest_dirs, dest, leftover, ripped, stop_at_rip, outcome, stop_seen_at,
                   webVars>>

\* ---- safe_name(title), plex_base_name(job)
Chars == {"a", ":", " ", "\t"}
Strings == SeqsUpTo(Chars, MaxLen)

CallSafeName ==
    /\ call = NoCall
    /\ \E t \in Strings : call' = [fn |-> "safe_name", title |-> t, ret |-> safe_name(t)]
    /\ UNCHANGED <<cfg, queue, pc, i, stop_event, waited, fin_polls, ej_calls, ejected,
                   removed, rip_result, clock, statusLog, error, disc, disc_new, folders,
                   dest_dirs, dest, leftover, ripped, stop_at_rip, outcome, stop_seen_at,
                   webVars>>

Alien == <<"A", "l", "i", "e", "n">>
Titles == SeqsUpTo(Chars, MaxTitleLen) \cup {Alien}
Jobs == [clz_index : {"10"}, title : Titles, year : {NoYear, "1979"}, imdb_id : {"tt0078748"}]

\* pipeline.py process_rip_folder_to_staging: base = plex_base_name(job), then dest_dir and
\* dest_path from base and the keeper's suffix
CallPlexBaseName ==
    /\ call = NoCall
    /\ \E job \in Jobs, keeper \in KeeperFiles :
          call' = [fn |-> "plex_base_name", job |-> job, keeper |-> keeper,
                   ret |-> plex_base_name(job),
                   dest |-> DestPath(plex_base_name(job), Suffix(keeper.path))]
    /\ UNCHANGED <<cfg, queue, pc, i, stop_event, waited, fin_polls, ej_calls, ejected,
                   removed, rip_result, clock, statusLog, error, disc, disc_new, folders,
                   dest_dirs, dest, leftover, ripped, stop_at_rip, outcome, stop_seen_at,
                   webVars>>

FnRest == <<cfg, queue, pc, i, stop_event, waited, fin_polls, ej_calls, ejected, removed,
            rip_result, clock, statusLog, error, disc, disc_new, folders, dest_dirs, dest,
            leftover, ripped, stop_at_rip, outcome, stop_seen_at, webVars>>

\* ---- disc_present(makemkv_cmd, disc_spec, configured_drive_letter)
\* the lines the info call can print: a title count, disc and title attributes, a message
InfoLines == {[tag |-> "TCOUNT", n |-> 0], [tag |-> "TCOUNT", n |-> 2],
              [tag |-> "CINFO", n |-> 0], [tag |-> "TINFO", n |-> 0], [tag |-> "MSG", n |-> 0]}

InfoTexts == SeqsUpTo(InfoLines, MaxLines)

\* ripper.py _run for the info call: the tool ends with an exit code and its output, the
\* timeout expires (subprocess.TimeoutExpired), or the call raises (missing executable)
InfoRuns ==
    [how : {"exit"}, rc : {0, 1}, out : InfoTexts]
    \cup [how : {"timeout", "exception"}, rc : {0}, out : {<<>>}]

\* ripper.py _get_info_text: (text, timed_out); the exit code is not looked at
get_info_text(run) ==
    IF run.how = "timeout" THEN [txt |-> <<>>, timed_out |-> TRUE]
    ELSE IF run.how = "exception" THEN [txt |-> <<>>, timed_out |-> FALSE]
    ELSE [txt |-> run.out, timed_out |-> FALSE]

NoCount == -1

\* re.search(r"TCOUNT:(\d+)", txt): the number of the first title-count field
RECURSIVE FirstCount(_)
FirstCount(txt) ==
    IF txt = <<>> THEN NoCount
    ELSE IF txt[1].tag = "TCOUNT" THEN txt[1].n
    ELSE FirstCount(Tail(txt))

\* "CINFO:" in txt or "TINFO:" in txt
HasMarkers(txt) == \E k \in 1..Len(txt) : txt[k].tag \in {"CINFO", "TINFO"}

\* what disc_present reads from the info call
InfoKind(run) ==
    LET t == get_info_text(run) IN
    IF FirstCount(t.txt) # NoCount
    THEN (IF FirstCount(t.txt) > 0 THEN "tcount_pos" ELSE "tcount_zero")
    ELSE IF HasMarkers(t.txt) THEN "markers"
    ELSE IF t.timed_out THEN "timeout"
    ELSE IF run.how = "exception" THEN "error"
    ELSE "no_markers"

\* str.upper() on the drive letters of the model
Upper(c) == CASE c = "d" -> "D" [] c = "e" -> "E" [] OTHER -> c

\* str.rstrip('\\')
RECURSIVE RStripBackslash(_)
RStripBackslash(s) ==
    IF s # <<>> /\ Last(s) = "\\" THEN RStripBackslash(SubSeq(s, 1, Len(s) - 1)) ELSE s

\* configured_drive_letter None or ""
NoLetter == <<>>

DriveLetters == {"d", "e", "D", "E"}

\* ripper.py _parse_drive_letter
parse_drive_letter(disc_spec, configured) ==
    IF configured # NoLetter
    THEN LET s == RStripBackslash(Strip(configured))
             letter == [k \in 1..Len(s) |-> Upper(s[k])]
         IN IF letter # <<>> /\ Last(letter) = ":" THEN letter ELSE Append(letter, ":")
    ELSE IF /\ Len(disc_spec) >= 7
            /\ SubSeq(disc_spec, 1, 6) = <<"d", "r", "i", "v", "e", ":">>
            /\ disc_spec[7] \in DriveLetters
         THEN <<Upper(disc_spec[7]), ":">>
         ELSE <<"D", ":">>

\* ripper.py _drive_has_media: Test-Path on the drive's root exits 0 when the drive holds
\* media; an exception of the check is False
drive_has_media(letter, loaded, check) == check = "ran" /\ letter \in loaded

\* the values of disc_spec and configured_drive_letter, and the drives that hold media
DiscSpecs == {<<"d", "i", "s", "c", ":", "0">>, <<"d", "r", "i", "v", "e", ":", "e">>}
ConfiguredLetters == {NoLetter, <<"e">>, <<"E", ":">>, <<" ", "e", ":", "\\">>}
LoadedDrives == SUBSET {<<"D", ":">>, <<"E", ":">>}

\* ripper.py disc_present on the outcome of the info call and of the drive check
disc_present_call(run, disc_spec, configured, loaded, check) ==
    disc_present(InfoKind(run),
                 drive_has_media(parse_drive_letter(disc_spec, configured), loaded, check))

CallDiscPresent ==
    /\ call = NoCall
    /\ \E run \in InfoRuns, s \in DiscSpecs, c \in ConfiguredLetters, l \in LoadedDrives,
          k \in {"ran", "exception"} :
          call' = [fn |-> "disc_present", run |-> run, disc_spec |-> s, configured |-> c,
                   loaded |-> l, check |-> k,
                   ret |-> disc_present_call(run, s, c, l, k)]
    /\ UNCHANGED FnRest

\* ---- try_eject(drive_letter, makemkv_cmd, disc_spec)
\* how a subprocess call ends: with an exit code, by its timeout, or by an exception (a
\* missing executable)
ProcRuns == [how : {"exit"}, rc : {0, 1}] \cup [how : {"timeout", "exception"}, rc : {0}]

\* try_eject with a plausible slip: a failed rip-tool eject makes the result false
try_eject_after_tool(with_tool, tool, shell) ==
    [raised |-> FALSE,
     value |-> (shell.how = "exit" /\ shell.rc = 0)
               /\ (with_tool => (tool.how = "exit" /\ tool.rc = 0))]

\* ripper.py try_eject: the rip tool's eject is tried when makemkv_cmd and disc_spec are
\* given, whatever it does is passed over; then the shell eject: p.returncode == 0, and
\* False on an exception
try_eject(with_tool, tool, shell) ==
    [raised |-> FALSE, value |-> (shell.how = "exit" /\ shell.rc = 0)]

CallTryEject ==
    /\ call = NoCall
    /\ \E w \in BOOLEAN, t \in ProcRuns, s \in ProcRuns :
          call' = [fn |-> "try_eject", with_tool |-> w, tool |-> t, shell |-> s,
                   ret |-> try_eject(w, t, s)]
    /\ UNCHANGED FnRest

\* ---- resolve_config_path(cli_config)
\* cli_config or MOVIERIPPER_CONFIG not given: None or ""
NoPath == ""
CwdConfig == "cwd/config.json"
HomeConfig == "home/.movieripper/config.json"
ConfigPaths == {"a.json", "b.json", CwdConfig, HomeConfig}

\* candidate_paths with a plausible slip: the environment variable comes before the
\* command-line path
candidate_paths_env_first(cli_config, env_path) ==
    (IF env_path # NoPath THEN <<[path |-> env_path, reason |-> "env"]>> ELSE <<>>)
    \o (IF cli_config # NoPath THEN <<[path |-> cli_config, reason |-> "cli"]>> ELSE <<>>)
    \o <<[path |-> CwdConfig, reason |-> "cwd"], [path |-> HomeConfig, reason |-> "home"]>>

\* config.py _candidate_paths
candidate_paths(cli_config, env_path) ==
    (IF cli_config # NoPath THEN <<[path |-> cli_config, reason |-> "cli"]>> ELSE <<>>)
    \o (IF env_path # NoPath THEN <<[path |-> env_path, reason |-> "env"]>> ELSE <<>>)
    \o <<[path |-> CwdConfig, reason |-> "cwd"], [path |-> HomeConfig, reason |-> "home"]>>

\* for path, reason in candidates: if path.exists(): return path, reason
RECURSIVE FirstExisting(_, _)
FirstExisting(candidates, existing) ==
    IF candidates = <<>> THEN [raised |-> "FileNotFoundError", path |-> NoPath, reason |-> "none"]
    ELSE IF candidates[1].path \in existing
         THEN [raised |-> "none", path |-> candidates[1].path, reason |-> candidates[1].reason]
         ELSE FirstExisting(Tail(candidates), existing)

\* config.py resolve_config_path
resolve_config_path(cli_config, env_path, existing) ==
    FirstExisting(candidate_paths(cli_config, env_path), existing)

CallResolveConfigPath ==
    /\ call = NoCall
    /\ \E c \in ConfigPaths \cup {NoPath}, e \in ConfigPaths \cup {NoPath},
          x \in SUBSET ConfigPaths :
          call' = [fn |-> "resolve_config_path", cli_config |-> c, env_path |-> e,
                   existing |-> x, ret |-> resolve_config_path(c, e, x)]
    /\ UNCHANGED FnRest

\* ---- validate_config(config_json)
\* config.py ROOT_ALIASES: the two required roots in their order, each with its alias
RootKeys == <<"rips_staging_root", "final_movies_root">>
RootAlias(key) == IF key = "rips_staging_root" THEN "rip_prep_root" ELSE "rip_staging_root"

\* the value of a key of the configuration: the key is absent, or holds a number, or a string
NoValue == [kind |-> "absent", s |-> <<>>]
ConfigValues ==
    {NoValue, [kind |-> "number", s |-> <<>>]}
    \cup [kind : {"string"}, s : {<<>>, <<" ">>, <<"p">>, <<" ", "q", "\t">>}]

ConfigJsons == [{"rips_staging_root", "final_movies_root", "rip_prep_root", "rip_staging_root"}
                   -> ConfigValues]

\* isinstance(value, str) and value.strip()
NonBlank(v) == v.kind = "string" /\ Strip(v.s) # <<>>

Stripped(v) == [kind |-> "string", s |-> Strip(v.s)]

\* resolve_path_setting with a plausible slip: the alias is looked at first
resolve_path_setting_alias_first(config_json, key) ==
    IF NonBlank(config_json[RootAlias(key)]) THEN Stripped(config_json[RootAlias(key)])
    ELSE IF NonBlank(config_json[key]) THEN Stripped(config_json[key])
    ELSE NoValue

\* config.py resolve_path_setting: the key's own value, else the alias's, else None
resolve_path_setting(config_json, key) ==
    IF NonBlank(config_json[key]) THEN Stripped(config_json[key])
    ELSE IF NonBlank(config_json[RootAlias(key)]) THEN Stripped(config_json[RootAlias(key)])
    ELSE NoValue

\* config.py normalize_config: out[key] = resolved for every root that resolves
normalize_config(config_json) ==
    [k \in DOMAIN config_json |->
        IF k \in {RootKeys[1], RootKeys[2]} /\ resolve_path_setting(config_json, k) # NoValue
        THEN resolve_path_setting(config_json, k)
        ELSE config_json[k]]

\* config.py validate_config: the loop over the roots, then the report
validate_config(config_json, existing) ==
    LET normalized == normalize_config(config_json)
        missing == SelectSeq(RootKeys, LAMBDA k : ~NonBlank(normalized[k]))
        found == SelectSeq(RootKeys, LAMBDA k : NonBlank(normalized[k]))
    IN [valid |-> missing = <<>>,
        errors |-> missing,
        warnings |-> SelectSeq(found, LAMBDA k : normalized[k].s \notin existing),
        resolved |-> [k \in {found[n] : n \in 1..Len(found)} |-> normalized[k].s],
        normalized_config |-> normalized]

CallValidateConfig ==
    /\ call = NoCall
    /\ \E c \in ConfigJsons, x \in SUBSET {<<"p">>, <<"q">>} :
          call' = [fn |-> "validate_config", config_json |-> c, existing |-> x,
                   ret |-> validate_config(c, x)]
    /\ UNCHANGED FnRest

\* ---- audio_score(codecs)
CodecNames == {TrueHd, DtsHd, Dts, Eac3, Ec3, Ac3, Aac, AacLatm, Mp2}

CallAudioScore ==
    /\ call = NoCall
    /\ \E cs \in SeqsUpTo(CodecNames, MaxTracks) :
          call' = [fn |-> "audio_score", codecs |-> cs, ret |-> audio_score(cs)]
    /\ UNCHANGED FnRest

\* ---- api_run_start's validation followed by run_queue's first lines
\* watcher.py run_queue: rip_prep_root = Path(cfg["rip_prep_root"]);
\* rip_staging_root = Path(cfg["rip_staging_root"]): a missing key raises KeyError, a value
\* that is no string raises TypeError in Path()
root_lookups(cfg_json) ==
    LET keys == <<"rip_prep_root", "rip_staging_root">>
        bad == SelectSeq(keys, LAMBDA k : cfg_json[k].kind # "string")
    IN IF bad = <<>> THEN "ok"
       ELSE IF cfg_json[bad[1]].kind = "absent" THEN "KeyError" ELSE "TypeError"

\* api_run_start: report = validate_config(cfg); the thread runs run_queue(cfg=cfg, ...)
\* with the configuration as it was read from the file
CallRunQueue ==
    /\ call = NoCall
    /\ \E c \in ConfigJsons :
          call' = [fn |-> "run_queue", config_json |-> c, report |-> validate_config(c, {}),
                   ret |-> root_lookups(c)]
    /\ UNCHANGED FnRest

FnNext == CallPickKeeper \/ CallSafeName \/ CallPlexBaseName \/ CallDiscPresent \/ CallTryEject \/ CallResolveConfigPath \/ CallValidateConfig \/ CallAudioScore \/ CallRunQueue

FnSpec == FnInit /\ [][FnNext]_vars

\* ============================================================ disc waits
\* ripper.py wait_for_disc and wait_for_disc_removed, called on their own: `call` holds the
\* function, poll_seconds, max_wait_seconds / timeout_seconds, what the last poll saw and
\* the result; `waited` counts the sleeps; the operator moves discs in and out meanwhile.
WaitInit == RunAtRest /\ WebIdle /\ disc \in BOOLEAN /\ waited = 0 /\ call = NoCall

WaitFns == {"wait_for_disc", "wait_for_disc_removed"}

\* sleeps after which a wait without a deadline is no longer followed
MaxWaitPolls == MaxWaitSeconds + 1

WaitRest == <<cfg, queue, pc, i, stop_event, fin_polls, ej_calls, ejected, removed,
              rip_result, clock, statusLog, error, disc_new, folders, dest_dirs, dest,
              leftover, ripped, stop_at_rip, outcome, stop_seen_at, webVars>>

\* t0 = time.time()
WaitCall ==
    /\ call = NoCall
    /\ \E f \in WaitFns, p \in 1..MaxPollSeconds, mw \in 0..MaxWaitSeconds :
          call' = [fn |-> f, poll |-> p, max_wait |-> mw, seen |-> FALSE, polls |-> 0,
                   ret |-> "pending"]
    /\ UNCHANGED <<disc, waited, WaitRest>>

\* one turn of `while True`: the poll; return True when it shows what is waited for; return
\* False when there is a deadline and it has passed; else time.sleep(poll_seconds)
WaitPoll ==
    /\ call.fn \in WaitFns /\ call.ret = "pending"
    /\ \E r \in PollResults(disc), late \in TimeoutOutcomes(waited, call.poll, call.max_wait) :
          LET hit == IF call.fn = "wait_for_disc" THEN r ELSE ~r IN
          IF hit
          THEN /\ call' = [call EXCEPT !.seen = r, !.polls = 1, !.ret = "true"]
               /\ UNCHANGED waited
          ELSE IF late
          THEN /\ call' = [call EXCEPT !.seen = r, !.polls = 1, !.ret = "false"]
               /\ UNCHANGED waited
          ELSE /\ waited < MaxWaitPolls
               /\ call' = [call EXCEPT !.seen = r, !.polls = 1]
               /\ waited' = waited + 1
    /\ UNCHANGED <<disc, WaitRest>>

\* the operator puts a disc in or takes it out while the wait goes on
DriveChange ==
    /\ call.fn \in WaitFns /\ call.ret = "pending"
    /\ disc' = ~disc
    /\ UNCHANGED <<call, waited, WaitRest>>

WaitNext == WaitCall \/ WaitPoll \/ DriveChange

WaitSpec == WaitInit /\ [][WaitNext]_vars

\* the thread that waits is scheduled
FairWaitSpec == WaitSpec /\ WF_vars(WaitPoll)

\* ========================================================== finalize wait
\* watcher.py run_queue, the wait for the working folder to go idle, on its own: `call`
\* holds the time since t0, the latest modification time under the folder, idle_seconds,
\* the stop flag and how the wait ended; the rip tool may still write meanwhile.
FinalizeInit == RunAtRest /\ WebIdle /\ disc = FALSE /\ waited = 0 /\ call = NoCall

\* is_idle with a plausible slip: the idle window is counted from the start of the wait
is_idle_unrefreshed(mtimes, now, idle_seconds) ==
    IF mtimes = <<>> THEN FALSE ELSE now >= idle_seconds

\* pipeline.py is_idle: latest = the greatest st_mtime under the folder; False when there is
\* no file; else (now - latest) >= idle_seconds
is_idle(mtimes, now, idle_seconds) ==
    IF mtimes = <<>> THEN FALSE ELSE (now - mtimes[1]) >= idle_seconds

\* idle_seconds = int(cfg.get("idle_seconds", 180)), or a window beyond the ceiling
IdleWindows == {IdleSeconds, FinalizeCeilingSeconds + FinalizePollSeconds}

\* t0 = time.time(): the job marker and the artifacts were written just before
FinalizeCall ==
    /\ call = NoCall
    /\ \E w \in IdleWindows :
          call' = [fn |-> "finalize_wait", now |-> 0, mtimes |-> <<0>>, idle_seconds |-> w,
                   stop |-> FALSE, ret |-> "pending"]
    /\ UNCHANGED FnRest

\* one turn of `while time.time() - t0 < 1800`: if should_stop(): return;
\* if is_idle(...): break; time.sleep(5); after the loop the move step begins
FinalizeTurn ==
    /\ call.fn = "finalize_wait" /\ call.ret = "pending"
    /\ IF ~(call.now < FinalizeCeilingSeconds) THEN call' = [call EXCEPT !.ret = "moving"]
       ELSE IF call.stop THEN call' = [call EXCEPT !.ret = "stopped"]
       ELSE IF is_idle(call.mtimes, call.now, call.idle_seconds)
       THEN call' = [call EXCEPT !.ret = "moving"]
       ELSE call' = [call EXCEPT !.now = @ + FinalizePollSeconds]
    /\ UNCHANGED FnRest

\* the rip tool writes to a file of the folder after it has returned
LateWrite ==
    /\ call.fn = "finalize_wait" /\ call.ret = "pending"
    /\ call.mtimes # <<call.now>>
    /\ call' = [call EXCEPT !.mtimes = <<call.now>>]
    /\ UNCHANGED FnRest

\* webapp/app.py api_run_stop: STATE.stop_event.set() while the worker waits
StopDuringFinalize ==
    /\ call.fn = "finalize_wait" /\ call.ret = "pending" /\ ~call.stop
    /\ call' = [call EXCEPT !.stop = TRUE]
    /\ UNCHANGED FnRest

FinalizeNext == FinalizeCall \/ FinalizeTurn \/ LateWrite \/ StopDuringFinalize

FinalizeSpec == FinalizeInit /\ [][FinalizeNext]_vars

\* the worker thread is scheduled
FairFinalizeSpec == FinalizeSpec /\ WF_vars(FinalizeTurn)

\* ==================================================== claims on the queue run
\* the destination path the move step computes for the current item
MoveTarget ==
    DestPath(plex_base_name(folders[i].job[1]),
             Suffix(pick_keeper(folders[i].files, MinMinutesMain, DurationTolTenths,
                                cfg.prefer_angle_1).path))

\* the current item is at the move step, its keeper is selected and its destination exists
MoveOntoExisting ==
    /\ pc = "moving"
    /\ pick_keeper(folders[i].files, MinMinutesMain, DurationTolTenths, cfg.prefer_angle_1).path # <<>>
    /\ \E f \in dest : f.path = MoveTarget

\* C1: a file that exists at a destination path is never replaced or modified: every step
\* of the run keeps every destination file with its content, and a file is only ever added
\* at a path that did not exist, in copy and in move mode.
C1_NeverOverwrite ==
    [][/\ \A f \in dest : f \in dest'
       /\ \A g \in dest' \ dest : ~\E f \in dest : f.path = g.path]_vars

\* C1 witness: two queue items map to the same destination name; the first was moved
\* there, the second was refused, and the first one's file is still in place.
C1_Witness ==
    /\ error = "destination_exists"
    /\ i = 2
    /\ \E f \in dest : /\ f.path = DestPath(plex_base_name(queue[2]), ".mkv")
                       /\ f.content.origin = "rip" /\ f.content.item = 1

\* C2: when the computed destination file exists (the probes succeeded and a keeper was
\* selected), the move step fails with an error and changes nothing: the working folders
\* (keeper included, no Receipt), the destination files and the destination directories
\* are as before.
C2_ExistingDestinationFails ==
    [][(MoveOntoExisting /\ pc' # pc /\ error' # "probe_failed")
          => /\ pc' = "raised" /\ error' = "destination_exists"
             /\ folders' = folders /\ dest' = dest /\ dest_dirs' = dest_dirs
             /\ folders'[i].receipt = <<>>]_vars

\* C2 witness: the move step has failed on a destination left by an earlier run; the
\* keeper is still in the working folder and no Receipt is there.
C2_Witness ==
    /\ pc = "raised" /\ error = "destination_exists"
    /\ \E f \in dest : f.path = MoveTarget /\ f.content = PreExisting
    /\ \E k \in 1..Len(folders[i].files) :
          folders[i].files[k] = pick_keeper(folders[i].files, MinMinutesMain, DurationTolTenths,
                                            cfg.prefer_angle_1)
    /\ folders[i].receipt = <<>>

\* C3: a failure while one item is processed is turned into a skip of that item, so a run
\* ends only by exhausting the queue or by cancellation: no exception leaves run_queue.
C3_FailureSkipsItem ==
    pc \in Final => (error = "none" /\ (i > Len(queue) \/ queue = <<>> \/ stop_seen_at # "nowhere"))

\* C4: the disc ripped for an item is never the leftover disc that was in the drive when
\* the item became current.
C4_LeftoverNeverRipped == ripped # "leftover"

\* C5: when the signal is set while the worker waits for a disc, no rip is started for
\* the current item, even if a disc is seen at the next poll.
C5_StopWhileWaiting == ~stop_at_rip

\* the steps emitted for item k
StepsOf(k) == {statusLog[n].step : n \in {m \in 1..Len(statusLog) : statusLog[m].item = k}}

\* C6: after the rip returns, the item is skipped exactly when the working folder holds
\* no .mkv output, whatever the exit code; a skipped item never reaches finalizing or
\* moving, gets no Receipt, and the run goes on to the next queue item.
C6_SkipIffNoOutput ==
    /\ [][(pc = "rip_returned" /\ pc' # pc)
             => /\ (outcome'[i] = "skipped") <=> (folders[i].files = <<>>)
                /\ (outcome'[i] = "skipped") => (pc' = "top" /\ i' = i + 1)
                /\ (outcome'[i] # "skipped") => (pc' = "finalizing" /\ i' = i)]_vars
    /\ [](\A k \in 1..Len(queue) :
             outcome[k] = "skipped"
                => /\ folders[k].receipt = <<>>
                   /\ StepsOf(k) \cap {"finalizing", "moving", "ejecting"} = {}
                   /\ \A f \in dest : f.content.item # k)

\* C6 witness: the tool ended with exit code 0 and left no .mkv: item 1 was skipped and
\* the run has gone on to item 2.
C6_Witness ==
    /\ Len(queue) = 2 /\ outcome[1] = "skipped" /\ outcome[2] = "pending"
    /\ pc = "top" /\ i = 2
    /\ rip_result = <<[rc |-> 0]>>

\* C9: once the signal is set, the run ends without operator input, given that the worker
\* is scheduled and that an external tool that was invoked ends.
C9_StopEndsRun == stop_event ~> (pc \in Final)

\* C9 witness: the run ended on the signal seen in the eject wait.
C9_Witness == pc = "returned" /\ stop_event /\ stop_seen_at = "eject_wait"

\* C10: when the worker observes the signal it emits step=stopped, running=false and
\* returns: no file of a working folder or of the destination is touched, no later item
\* is attempted, no keeper is moved and no Receipt is written, and nothing follows.
C10_StopIsClean ==
    /\ [][(stop_seen_at = "nowhere" /\ stop_seen_at' # "nowhere")
             => /\ pc' = "returned"
                /\ Last(statusLog') = [step |-> "stopped", running |-> FALSE, item |-> i]
                /\ folders' = folders /\ dest' = dest /\ dest_dirs' = dest_dirs]_vars
    /\ [][stop_seen_at # "nowhere"
             => /\ folders' = folders /\ dest' = dest /\ dest_dirs' = dest_dirs
                /\ statusLog' = statusLog /\ outcome' = outcome /\ pc' = pc]_vars
    /\ [](stop_seen_at # "nowhere"
             => /\ \A k \in 1..Len(queue) : k > i => outcome[k] = "pending" /\ ~folders[k].exists
                /\ stop_seen_at = "top" => outcome[i] = "pending" /\ ~folders[i].exists
                /\ stop_seen_at \in {"leftover_wait", "wait_insert", "finalizing"}
                      => /\ folders[i].receipt = <<>>
                         /\ \A f \in dest : f.content.item # i)

\* C10 witness: the signal was seen in the finalize wait of item 1 of 2: the outputs are
\* in the working folder, nothing was moved, item 2 was never taken up.
C10_Witness ==
    /\ pc = "returned" /\ stop_seen_at = "finalizing"
    /\ i = 1 /\ Len(queue) = 2
    /\ folders[1].files # <<>> /\ folders[1].receipt = <<>>
    /\ outcome[2] = "pending"

\* the n-th status of the run concerns item k and has step st
StatusIs(n, k, st) == statusLog[n].item = k /\ statusLog[n].step = st

\* C11: the items are attempted in queue order, one at a time, each at most once: the
\* index only ever moves to the next item, the statuses follow the queue order, an item
\* gets at most one wait and one rip, a settled item stays settled, and after a skip the
\* next item in order is taken up.
C11_QueueOrder ==
    /\ [][/\ i' \in {i, i + 1}
          /\ \A k \in 1..Len(queue) :
                outcome[k] \in {"skipped", "moved", "failed", "stopped"} => outcome'[k] = outcome[k]
          /\ (i \in 1..Len(queue) /\ outcome[i] # "skipped" /\ outcome'[i] = "skipped")
                => (i' = i + 1 /\ pc' = "top")]_vars
    /\ [](/\ \A n \in 1..(Len(statusLog) - 1) : statusLog[n].item <= statusLog[n + 1].item
          /\ \A k \in 1..Len(queue) :
                \A st \in {"waiting_for_disc", "ripping"} :
                   Cardinality({n \in 1..Len(statusLog) : StatusIs(n, k, st)}) <= 1
          /\ \A k \in 1..Len(queue) :
                /\ k < i => outcome[k] \in {"skipped", "moved"}
                /\ k > i => outcome[k] = "pending" /\ ~folders[k].exists)

\* C11 witness: item 1 was skipped, item 2 was then ripped and moved, the run is over.
C11_Witness ==
    /\ Len(queue) = 2 /\ pc = "returned"
    /\ outcome = <<"skipped", "moved">>
    /\ Cardinality({n \in 1..Len(statusLog) : StatusIs(n, 1, "ripping")}) = 1

\* C12: with an empty queue the run is a no-op success: the worker goes from its start
\* straight to its return, so it polls no disc, creates no working folder, invokes no rip
\* and writes no destination; its only status is step=done, running=false.
C12_EmptyQueueNoOp ==
    /\ [](queue = <<>>
             => /\ pc \in {"start", "returned"} /\ error = "none"
                /\ folders = <<>> /\ clock = 0 /\ ripped = "none" /\ rip_result = <<>>
                /\ pc = "start" => statusLog = <<>>
                /\ pc = "returned"
                      => statusLog = <<[step |-> "done", running |-> FALSE, item |-> 0]>>)
    /\ [][queue = <<>> => (dest' = dest /\ dest_dirs' = dest_dirs /\ disc' = disc)]_vars

\* C12 witness: the run over an empty queue has returned with a disc sitting in the drive.
C12_Witness == queue = <<>> /\ pc = "returned" /\ disc /\ Len(statusLog) = 1

\* ================================================ claims on the web run session
Working(w) == w \in alive /\ wk[w].pc \in {"ripping", "finalizing", "moving"}

\* C7: in every state of the web session, whatever the interleaving of run/start and
\* run/stop requests, at most one worker thread is alive, and so at most one working
\* folder is being ripped, finalized or moved.
C7_SingleWorker ==
    /\ Cardinality(alive) <= 1
    /\ Cardinality({w \in 1..MaxRuns : Working(w)}) <= 1

\* a run/start was turned away with 409 while the worker rips and a run/stop is under way
C7_Witness ==
    /\ alive = {1} /\ wk[1].pc = "ripping"
    /\ \E h1, h2 \in Handlers :
          /\ req[h1].kind = "start" /\ req[h1].resp = 409
          /\ req[h2].kind = "stop" /\ req[h2].pc = "p_lock"

RunStateUnchanged ==
    /\ web_status' = web_status /\ web_stop' = web_stop
    /\ thread' = thread /\ alive' = alive /\ runs' = runs /\ wk' = wk

\* C8: a run/start that finds a worker alive ends with 409, one whose config file is
\* missing, malformed or invalid ends with 400, and neither changes the run state: the
\* status record, the stop flag and the thread reference stay, no worker is launched.
C8_StartRejected ==
    [][\A h \in Handlers :
          (req[h].kind = "start" /\ req[h].pc = "s_lock" /\ req'[h].pc # "s_lock")
          => /\ ThreadAlive => (req'[h].resp = 409 /\ RunStateUnchanged)
             /\ (~ThreadAlive /\ req'[h].cfg \in {"missing", "bad_json", "not_object", "no_roots"})
                => (req'[h].resp = 400 /\ RunStateUnchanged)]_vars

\* ================================================= claims on the keeper selector
AllProbed(mkvs) == \A k \in 1..Len(mkvs) : mkvs[k].probe = "ok"
MeetsMin(f, min_minutes) == f.duration >= min_minutes * 60
Meeting(mkvs, min_minutes) == {k \in 1..Len(mkvs) : MeetsMin(mkvs[k].info, min_minutes)}

\* the longest duration among the files that meet the minimum
LongestOf(mkvs, min_minutes) ==
    CHOOSE d \in {mkvs[k].info.duration : k \in Meeting(mkvs, min_minutes)} :
       \A k \in Meeting(mkvs, min_minutes) : mkvs[k].info.duration <= d

\* the positions of the longest bucket
BucketOf(mkvs, min_minutes) ==
    {k \in Meeting(mkvs, min_minutes) :
        10 * (LongestOf(mkvs, min_minutes) - mkvs[k].info.duration) <= DurationTolTenths}

\* C13: for every file set in which every file is shorter than the minimum duration, the
\* empty set included, pick_keeper raises and returns no file.
C13_NoCandidateFails ==
    (call.fn = "pick_keeper" /\ Meeting(call.mkvs, call.min_minutes) = {})
       => /\ call.ret.raised # "none" /\ call.ret.file = <<>>
          /\ AllProbed(call.mkvs) => call.ret.raised = "no_candidate"

\* C13 witness: two files, both shorter than 45 minutes, one of them a second short.
C13_Witness ==
    /\ call.fn = "pick_keeper" /\ call.min_minutes = MinMinutesMain
    /\ call.mkvs = <<[info |-> FBelow, probe |-> "ok"], [info |-> FShort, probe |-> "ok"]>>
    /\ call.ret = [raised |-> "no_candidate", file |-> <<>>]

\* C14: for every probed file set in which exactly one file meets the minimum duration,
\* pick_keeper returns that file, whatever the scores, the angle labels and the
\* angle preference.
C14_SingleCandidate ==
    (call.fn = "pick_keeper" /\ AllProbed(call.mkvs)
        /\ Cardinality(Meeting(call.mkvs, call.min_minutes)) = 1)
       => \A k \in Meeting(call.mkvs, call.min_minutes) :
             call.ret = [raised |-> "none", file |-> <<call.mkvs[k].info>>]

\* C14 witness: the one file of exactly 45 minutes is returned, next to a shorter file
\* that scores higher.
C14_Witness ==
    /\ call.fn = "pick_keeper" /\ call.min_minutes = MinMinutesMain /\ call.prefer
    /\ call.mkvs = <<[info |-> FBelow, probe |-> "ok"], [info |-> FEdge, probe |-> "ok"],
                     [info |-> FShort, probe |-> "ok"]>>
    /\ ScoreGreater(FBelow, FEdge)
    /\ call.ret.file = <<FEdge>>

\* C15: the file pick_keeper returns is one of the given files, meets the minimum duration
\* and is within the duration tolerance of the longest file that meets the minimum.
C15_WithinTolerance ==
    (call.fn = "pick_keeper" /\ call.ret.raised = "none")
       => \E k \in BucketOf(call.mkvs, call.min_minutes) : call.ret.file = <<call.mkvs[k].info>>

\* C15 witness: the file that scores highest is 3 seconds shorter than the longest and is
\* not returned.
C15_Witness ==
    /\ call.fn = "pick_keeper" /\ ~call.prefer
    /\ call.mkvs = <<[info |-> FRich, probe |-> "ok"], [info |-> FAngle10, probe |-> "ok"],
                     [info |-> FMain, probe |-> "ok"]>>
    /\ ScoreGreater(FRich, FMain)
    /\ call.ret.file = <<FMain>>

\* the names of the model's files whose angle marker has the number 1
AngleOneNames == {FAngle.path, FAngle01.path}

\* C16: with two or more files in the longest bucket: if prefer_angle_1 is set and a
\* bucket file is labelled angle 1, the first such file in probe order is returned; in
\* every other case a bucket file that no bucket file outscores is returned.
C16_AngleOnePreferred ==
    (call.fn = "pick_keeper" /\ AllProbed(call.mkvs)
        /\ Cardinality(BucketOf(call.mkvs, call.min_minutes)) >= 2)
       => LET bucket == BucketOf(call.mkvs, call.min_minutes)
              ones == {k \in bucket : call.mkvs[k].info.path \in AngleOneNames}
          IN IF call.prefer /\ ones # {}
             THEN \E k \in ones : /\ \A j \in ones : k <= j
                                  /\ call.ret = [raised |-> "none", file |-> <<call.mkvs[k].info>>]
             ELSE \E k \in bucket :
                     /\ call.ret = [raised |-> "none", file |-> <<call.mkvs[k].info>>]
                     /\ \A j \in bucket : ~ScoreGreater(call.mkvs[j].info, call.mkvs[k].info)

\* C16 witness: the first angle-1 file is returned although both other bucket files score
\* higher, one of them an angle-1 file too.
C16_Witness ==
    /\ call.fn = "pick_keeper" /\ call.prefer
    /\ call.mkvs = <<[info |-> FMain, probe |-> "ok"], [info |-> FAngle, probe |-> "ok"],
                     [info |-> FAngle01, probe |-> "ok"]>>
    /\ ScoreGreater(FMain, FAngle) /\ ScoreGreater(FAngle01, FAngle)
    /\ call.ret.file = <<FAngle>>

\* C17: a file whose probe fails is left out of the candidates and the selection goes on
\* over the other files: the result is that of the call on the files whose probe succeeds.
C17_FailedProbeExcluded ==
    call.fn = "pick_keeper"
       => call.ret = pick_keeper_call(SelectSeq(call.mkvs, LAMBDA m : m.probe = "ok"),
                                      call.min_minutes, DurationTolTenths, call.prefer)

\* ================================================ claims on the destination name
Tags == <<"[", "c", "l", "z", "-", "10", "]", " ", "{", "i", "m", "d", "b", "-", "tt0078748", "}">>
YearPart == <<"(", "1979", ")", " ">>

EndsWith(s, t) == Len(s) >= Len(t) /\ SubSeq(s, Len(s) - Len(t) + 1, Len(s)) = t

\* C18: plex_base_name gives "{title} ({year}) [clz-{clz_index}] {imdb-{imdb_id}}" in
\* sanitized form, without the year segment when there is no year: for Alien, 1979, 10,
\* tt0078748 it is "Alien (1979) [clz-10] {imdb-tt0078748}"; the destination is
\* <name>/<name><keeper suffix> under the root; the name holds none of <>:"/\|?*, no two
\* consecutive spaces and no blank at either end.
C18_PlexBaseName ==
    call.fn = "plex_base_name"
       => /\ (call.job.title = Alien /\ call.job.year = "1979")
                => call.ret = Alien \o <<" ">> \o YearPart \o Tags
          /\ (call.job.title = Alien /\ call.job.year = NoYear)
                => call.ret = Alien \o <<" ">> \o Tags
          /\ IF call.job.year = NoYear
             THEN EndsWith(call.ret, Tags) /\ ~EndsWith(call.ret, YearPart \o Tags)
             ELSE EndsWith(call.ret, YearPart \o Tags)
          /\ \A k \in 1..Len(call.ret) : call.ret[k] \notin BadChars
          /\ \A k \in 1..(Len(call.ret) - 1) : ~(call.ret[k] = " " /\ call.ret[k + 1] = " ")
          /\ call.ret[1] \notin Blanks /\ call.ret[Len(call.ret)] \notin Blanks
          /\ call.dest = [dir |-> call.ret, file |-> call.ret \o <<".mkv">>]

\* C18 witness: a title of a colon and two spaces, with the year.
C18_Witness ==
    /\ call.fn = "plex_base_name"
    /\ call.job.title = <<":", " ", " ">> /\ call.job.year = "1979"
    /\ call.ret = <<"_", " ">> \o YearPart \o Tags

\* C19: sanitization is idempotent: safe_name(safe_name(s)) = safe_name(s) for every s.
C19_SafeNameIdempotent ==
    call.fn = "safe_name" => safe_name(call.ret) = call.ret

\* C19 witness: a string with a leading tab, two spaces in a row and a colon.
C19_Witness ==
    /\ call.fn = "safe_name"
    /\ call.title = <<"\t", "a", " ", " ", ":">>
    /\ call.ret = <<"a", " ", "_">>

\* ===================================================== claims on the disc waits
\* what the wait is for, as the last poll saw it
WaitHit == IF call.fn = "wait_for_disc" THEN call.seen ELSE ~call.seen

\* C20: wait_for_disc returns true at the poll that sees a disc, and false only when there
\* is a deadline and a poll saw no disc; with a deadline it returns after a bounded number
\* of polls, without one it returns only true; wait_for_disc_removed likewise for a poll
\* that sees no disc.
C20_WaitTerminates ==
    /\ [](call.fn \in WaitFns
             => /\ call.ret = "true" => WaitHit
                /\ call.ret = "false" => (call.max_wait > 0 /\ ~WaitHit)
                /\ (call.ret = "pending" /\ call.polls > 0) => ~WaitHit
                /\ call.max_wait > 0 => (waited = 0 \/ (waited - 1) * call.poll < call.max_wait))
    /\ (call.fn \in WaitFns /\ call.max_wait > 0) ~> (call.fn \in WaitFns /\ call.ret # "pending")

\* C20 witness: wait_for_disc with polls every second and a deadline of 3 seconds has
\* returned false after three sleeps, with no disc seen.
C20_Witness ==
    /\ call.fn = "wait_for_disc" /\ call.poll = 1 /\ call.max_wait = MaxWaitSeconds
    /\ call.ret = "false" /\ waited = MaxWaitSeconds /\ ~call.seen

\* ================================================= claims on the disc monitor
\* the info call failed: it raised, or the tool ended with a non-zero exit code
InfoFailed(run) == run.how = "exception" \/ (run.how = "exit" /\ run.rc # 0)

\* C21: disc_present never raises, and it answers false whenever the info call failed (a
\* non-zero exit code or an exception).
C21_FailureIsAbsent ==
    call.fn = "disc_present"
       => /\ call.ret \in BOOLEAN
          /\ InfoFailed(call.run) => call.ret = FALSE

\* C22: try_eject never raises, whatever the rip tool's eject and the shell eject do, and it
\* returns true exactly when the shell eject ends with exit code 0, whatever the rip
\* tool's eject did before.
C22_EjectBestEffort ==
    call.fn = "try_eject"
       => /\ ~call.ret.raised
          /\ call.ret.value = (call.shell.how = "exit" /\ call.shell.rc = 0)

\* C22 witness: the rip tool's eject raised (missing executable), the shell eject ended
\* with exit code 0, and the result is true.
C22_Witness ==
    /\ call.fn = "try_eject" /\ call.with_tool
    /\ call.tool.how = "exception"
    /\ call.shell = [how |-> "exit", rc |-> 0]
    /\ call.ret = [raised |-> FALSE, value |-> TRUE]

\* ======================================================= claims on the eject wait
\* C23: the removal wait ends after a bounded number of calls of wait_for_disc_removed, and
\* when the eject was not confirmed the worker leaves the wait only for the operator's
\* acknowledgement (or for another call of the wait), be the run observed or not; it does
\* not go on to the next item by itself.
C23_UnconfirmedEjectWaitsForOperator ==
    [][/\ ej_calls <= MaxEjectCalls
       /\ (pc = "removed_wait" /\ ~ejected)
             => pc' \in {"removed_wait", "eject_wait", "await_operator"}]_vars

\* ===================================================== claims on the run status
\* C24: in every state of the web session, the status record that the status endpoint
\* returns holds a step and a running field.
C24_StatusShape == {"step", "running"} \subseteq DOMAIN web_status

\* C24 witness: a status request is about to read the record after a start was accepted and
\* a stop has overwritten the step.
C24_Witness ==
    /\ \E h \in Handlers : req[h].kind = "status" /\ req[h].pc = "t_lock"
    /\ "queue_path" \in DOMAIN web_status
    /\ web_status.step = "stopped" /\ web_status.running = FALSE

\* ========================================================= claims on the Receipt
\* C25: whenever a working folder holds a Receipt, the file named by its keeper_dest exists
\* at the destination, the Receipt's clz_index, title, year and imdb_id are those of the
\* folder's Job record, and the item was moved: a skipped, failed or cancelled item (or
\* one not yet moved) has no Receipt.
C25_ReceiptAfterMove ==
    \A k \in 1..Len(folders) :
       /\ folders[k].receipt # <<>>
             => LET r == folders[k].receipt[1]
                    job == folders[k].job[1]
                IN /\ \E f \in dest : f.path = r.keeper_dest
                   /\ r.clz_index = job.clz_index /\ r.title = job.title
                   /\ r.year = job.year /\ r.imdb_id = job.imdb_id
                   /\ outcome[k] = "moved"
       /\ outcome[k] # "moved" => folders[k].receipt = <<>>

\* C25 witness: the first item was moved and has its Receipt with the keeper at the
\* destination; the second item failed at the move step and has none.
C25_Witness ==
    /\ Len(queue) = 2 /\ outcome = <<"moved", "failed">>
    /\ folders[1].receipt # <<>>
    /\ \E f \in dest : f.path = folders[1].receipt[1].keeper_dest /\ f.content.origin = "rip"
    /\ folders[2].exists /\ folders[2].receipt = <<>>

\* ================================================== claims on the configuration
\* C26: resolve_config_path returns the first existing one of: the command-line path, the
\* path of MOVIERIPPER_CONFIG, config.json of the current directory, config.json of
\* ~/.movieripper; a candidate that is not given or does not exist is passed over; when
\* none exists it fails with FileNotFoundError.
C26_ConfigPriority ==
    call.fn = "resolve_config_path"
       => LET x == call.existing
              cli == call.cli_config # NoPath /\ call.cli_config \in x
              env == call.env_path # NoPath /\ call.env_path \in x
          IN call.ret =
                IF cli THEN [raised |-> "none", path |-> call.cli_config, reason |-> "cli"]
                ELSE IF env THEN [raised |-> "none", path |-> call.env_path, reason |-> "env"]
                ELSE IF CwdConfig \in x
                THEN [raised |-> "none", path |-> CwdConfig, reason |-> "cwd"]
                ELSE IF HomeConfig \in x
                THEN [raised |-> "none", path |-> HomeConfig, reason |-> "home"]
                ELSE [raised |-> "FileNotFoundError", path |-> NoPath, reason |-> "none"]

\* C26 witness: the command-line path does not exist, the path of the environment variable
\* and both config.json files do, and the path of the environment variable is returned.
C26_Witness ==
    /\ call.fn = "resolve_config_path"
    /\ call.cli_config = "a.json" /\ call.env_path = "b.json"
    /\ call.existing = {"b.json", CwdConfig, HomeConfig}
    /\ call.ret = [raised |-> "none", path |-> "b.json", reason |-> "env"]

\* the non-blank string a root resolves to: its own value when that is a non-blank string,
\* else its alias's value when that is one; <<>> when there is none
RootOf(c, key) ==
    IF c[key].kind = "string" /\ Strip(c[key].s) # <<>> THEN Strip(c[key].s)
    ELSE IF c[RootAlias(key)].kind = "string" /\ Strip(c[RootAlias(key)].s) # <<>>
    THEN Strip(c[RootAlias(key)].s)
    ELSE <<>>

\* C27: validate_config reports valid exactly when rips_staging_root and final_movies_root
\* both resolve to a non-blank string, by their own value or else by the alias
\* rip_prep_root resp. rip_staging_root, the own non-blank value going first; else it
\* reports one error for each root that does not resolve; a path that does not exist gives
\* a warning and no error.
C27_ValidateConfig ==
    call.fn = "validate_config"
       => LET c == call.config_json
              r == call.ret
              missing == SelectSeq(RootKeys, LAMBDA k : RootOf(c, k) = <<>>)
          IN /\ r.valid <=> (RootOf(c, RootKeys[1]) # <<>> /\ RootOf(c, RootKeys[2]) # <<>>)
             /\ r.errors = missing
             /\ \A n \in 1..2 :
                   RootOf(c, RootKeys[n]) # <<>>
                      => /\ RootKeys[n] \in DOMAIN r.resolved
                         /\ r.resolved[RootKeys[n]] = RootOf(c, RootKeys[n])
             /\ \A n \in 1..Len(r.warnings) :
                   /\ RootOf(c, r.warnings[n]) # <<>>
                   /\ RootOf(c, r.warnings[n]) \notin call.existing

\* C27 witness: the first root has a blank own value and resolves by its alias, the second
\* has both and resolves by its own value; neither path exists; the report is valid with
\* two warnings.
C27_Witness ==
    /\ call.fn = "validate_config"
    /\ call.config_json["rips_staging_root"] = [kind |-> "string", s |-> <<" ">>]
    /\ call.config_json["rip_prep_root"] = [kind |-> "string", s |-> <<" ", "q", "\t">>]
    /\ call.config_json["final_movies_root"] = [kind |-> "string", s |-> <<"p">>]
    /\ call.config_json["rip_staging_root"] = [kind |-> "string", s |-> <<" ", "q", "\t">>]
    /\ call.existing = {}
    /\ call.ret.valid /\ call.ret.errors = <<>>
    /\ call.ret.warnings = RootKeys
    /\ call.ret.resolved["rips_staging_root"] = <<"q">>
    /\ call.ret.resolved["final_movies_root"] = <<"p">>

\* ======================================================= claims on the score
\* 20 times the score without its bitrate term: audio_score/10 + 0.1 * subtitle tracks
\* + 0.05 * audio tracks
Extras20(f) == 2 * audio_score(f.audio_codecs) + 2 * f.subtitle_tracks + f.audio_tracks

\* 20 times the bitrate term (size in 1,000,000 bytes over max(duration, 1)): its whole
\* part and the numerator of its fraction
Rate20Whole(f) == (20 * f.size_mb) \div Max(f.duration, 1)
Rate20Rest(f) == (20 * f.size_mb) % Max(f.duration, 1)

\* the score of a is above the score of b: the whole parts differ by one or more, or they
\* are equal and the fractions decide
Outscores(a, b) ==
    LET whole == (Rate20Whole(a) + Extras20(a)) - (Rate20Whole(b) + Extras20(b))
        rest == Rate20Rest(a) * Max(b.duration, 1) - Rate20Rest(b) * Max(a.duration, 1)
    IN whole >= 1 \/ (whole = 0 /\ rest > 0)

\* C28: with two or more files in the longest bucket and the angle rule not deciding,
\* pick_keeper returns a bucket file of maximum score, the score being
\* (size_bytes / max(duration, 1)) / 1,000,000 + audio_score / 10 + 0.1 * subtitle tracks
\* + 0.05 * audio tracks, and among the bucket files of maximum score the first in probe
\* order.
C28_HighestScoreFirst ==
    (call.fn = "pick_keeper" /\ AllProbed(call.mkvs)
        /\ Cardinality(BucketOf(call.mkvs, call.min_minutes)) >= 2
        /\ ~(call.prefer /\ \E k \in BucketOf(call.mkvs, call.min_minutes) :
                               call.mkvs[k].info.path \in AngleOneNames))
       => LET bucket == BucketOf(call.mkvs, call.min_minutes)
              best == {k \in bucket :
                          \A j \in bucket : ~Outscores(call.mkvs[j].info, call.mkvs[k].info)}
          IN \E k \in best : /\ \A j \in best : k <= j
                             /\ call.ret = [raised |-> "none", file |-> <<call.mkvs[k].info>>]

\* C28 witness: three bucket files, the second and the third with the same, highest
\* score; the second is returned.
C28_Witness ==
    /\ call.fn = "pick_keeper"
    /\ call.mkvs = <<[info |-> FAngle10, probe |-> "ok"], [info |-> FTwin, probe |-> "ok"],
                     [info |-> FMain, probe |-> "ok"]>>
    /\ Outscores(FTwin, FAngle10) /\ ~Outscores(FMain, FTwin) /\ ~Outscores(FTwin, FMain)
    /\ call.ret.file = <<FTwin>>

\* the points of one track by the rules in their order, each a substring test on the name
SubstringPoints(c) ==
    IF Contains(c, TrueHd) THEN 50
    ELSE IF Contains(c, Dts) /\ Contains(c, <<"h", "d">>) THEN 40
    ELSE IF Contains(c, Dts) THEN 30
    ELSE IF Contains(c, Eac3) \/ Contains(c, Ec3) THEN 20
    ELSE IF Contains(c, Ac3) THEN 15
    ELSE IF Contains(c, Aac) THEN 10
    ELSE 5

RECURSIVE SumSubstringPoints(_)
SumSubstringPoints(cs) ==
    IF cs = <<>> THEN 0 ELSE SubstringPoints(Head(cs)) + SumSubstringPoints(Tail(cs))

\* C29: audio_score of a track list is the sum over the tracks of the points of the first
\* rule that matches, in the order TrueHD 50, DTS-HD 40, DTS 30, E-AC3 20, AC3 15, AAC 10,
\* else 5, each rule a substring test on the lower-cased codec name.
C29_AudioScoreBySubstring ==
    call.fn = "audio_score" => call.ret = SumSubstringPoints(call.codecs)

\* the drive that the filesystem check looks at: the configured drive letter, else the
\* letter of a disc_spec of the form drive:X, else D:
CheckedDrive ==
    IF call.configured # NoLetter THEN <<"E", ":">>
    ELSE IF call.disc_spec = <<"d", "r", "i", "v", "e", ":", "e">> THEN <<"E", ":">>
    ELSE <<"D", ":">>

\* the title counts of the info output, in the order of the output
TitleCounts(run) ==
    IF run.how = "exit" THEN SelectSeq(run.out, LAMBDA l : l.tag = "TCOUNT") ELSE <<>>

\* C30: disc_present answers (count > 0) when the info output has a title-count field,
\* whatever the other lines and the drive check say; else true when the output has a
\* CINFO: or TINFO: line; else true exactly when the info call timed out and the
\* filesystem check of the configured drive is positive; so without a timeout the
\* filesystem check never makes the answer true.
C30_DiscPresentDecision ==
    call.fn = "disc_present"
       => LET counts == TitleCounts(call.run)
              markers == /\ call.run.how = "exit"
                         /\ \E k \in 1..Len(call.run.out) : call.run.out[k].tag \in {"CINFO", "TINFO"}
              media == call.check = "ran" /\ CheckedDrive \in call.loaded
          IN call.ret = IF counts # <<>> THEN counts[1].n > 0
                        ELSE IF markers THEN TRUE
                        ELSE call.run.how = "timeout" /\ media

\* C30 witness: the info call timed out, the configured drive letter " e:\" names drive E:,
\* which holds media while D: does not, and the answer is true.
C30_Witness ==
    /\ call.fn = "disc_present"
    /\ call.run.how = "timeout"
    /\ call.configured = <<" ", "e", ":", "\\">> /\ call.disc_spec = <<"d", "i", "s", "c", ":", "0">>
    /\ call.loaded = {<<"E", ":">>} /\ call.check = "ran"
    /\ call.ret = TRUE

\* ================================================ claims on the status sequence
StepOrder == <<"waiting_for_disc", "ripping", "finalizing", "moving", "ejecting">>

\* the steps emitted for item k, in the order of their emission
StepSeqOf(k) ==
    LET mine == SelectSeq(statusLog, LAMBDA s : s.item = k)
    IN [n \in 1..Len(mine) |-> mine[n].step]

\* C31: the steps emitted for one item are waiting_for_disc, ripping, finalizing, moving,
\* ejecting in this order, up to some point and then possibly stopped: no step twice, none
\* out of order, moving only after ripping and finalizing, ejecting only with auto_eject,
\* and an item that was skipped has the first two and nothing more.
C31_StepOrder ==
    \A k \in 1..Len(queue) :
       /\ \E n \in 0..(IF cfg.auto_eject THEN 5 ELSE 4) :
             \/ StepSeqOf(k) = SubSeq(StepOrder, 1, n)
             \/ StepSeqOf(k) = Append(SubSeq(StepOrder, 1, n), "stopped")
       /\ outcome[k] = "skipped" => StepSeqOf(k) = SubSeq(StepOrder, 1, 2)

\* C31 witness: item 1 was skipped after its rip, item 2 went through all five steps.
C31_Witness ==
    /\ Len(queue) = 2
    /\ outcome[1] = "skipped" /\ StepSeqOf(1) = SubSeq(StepOrder, 1, 2)
    /\ StepSeqOf(2) = StepOrder

\* ==================================================== claims on the finalize wait
\* C32: the wait ends for the move step only when the folder was seen idle (the latest
\* modification lies idle_seconds or more back) or when 30 minutes have passed; it ends
\* by cancellation only when the signal is set, and then the item is not moved; and the
\* wait always ends.
C32_FinalizeWait ==
    /\ [](call.fn = "finalize_wait"
             => /\ call.ret = "moving"
                   => \/ call.now - call.mtimes[1] >= call.idle_seconds
                      \/ call.now >= FinalizeCeilingSeconds
                /\ call.ret = "stopped" => call.stop)
    /\ [][(call.fn = "finalize_wait" /\ call.ret # "pending") => call' = call]_vars
    /\ (call.fn = "finalize_wait") ~> (call.fn = "finalize_wait" /\ call.ret # "pending")

\* C32 witness: the tool wrote to the folder 100 seconds into the wait, and the wait ended
\* for the move step when the folder had been quiet for idle_seconds after that.
C32_Witness ==
    /\ call.fn = "finalize_wait" /\ call.ret = "moving"
    /\ call.idle_seconds = IdleSeconds /\ call.mtimes = <<100>>
    /\ call.now = 100 + IdleSeconds

\* ==================================================== claims on the rip artifacts
\* C33: once the rip of an item has returned and its output files have been looked at,
\* the item's working folder holds the three artifacts (stdout, stderr, exit code),
\* whatever the exit code was and whether the item was skipped or went on; the step that
\* looks at the output files is the step that has written them.
C33_ArtifactsAlways ==
    /\ \A k \in 1..Len(folders) :
          (folders[k].exists /\ ~(k = i /\ pc \in {"ripping", "rip_returned"}))
             => folders[k].artifacts = Artifacts
    /\ \A k \in 1..Len(outcome) :
          outcome[k] \in {"skipped", "moved"} => folders[k].artifacts = Artifacts

\* C33 witness: the first item was skipped, the rip of the second ended with exit code 1
\* and left files, and both folders hold the artifacts.
C33_Witness ==
    /\ Len(queue) = 2 /\ outcome[1] = "skipped" /\ folders[1].artifacts = Artifacts
    /\ i = 2 /\ pc = "finalizing" /\ rip_result = <<[rc |-> 1]>>
    /\ folders[2].artifacts = Artifacts

C35_ValidConfigStarts ==
    (call.fn = "run_queue" /\ call.report.valid) => call.ret = "ok"

\* ==================================================== claims on the web run state
\* C36: when no worker thread is alive and no run/start is in the middle of launching
\* one, the status record has running = false, however the last worker ended.
C36_TerminatedNotRunning ==
    (alive = {} /\ lock = 0) => ~web_status.running

\* C37: whenever a run/stop returns while a worker thread is alive, the stop flag is set.
C37_StopNotLost ==
    [][\A h \in Handlers :
          (req[h].kind = "stop" /\ req'[h].kind = "idle" /\ alive' # {}) => web_stop']_vars

\* C38: once the status says step = stopped, no step leaves it with running = true or
\* with a working step, except the step by which an accepted run/start installs the
\* status of the new run.
C38_StoppedStays ==
    [][web_status.step = "stopped"
          => \/ (~web_status'.running /\ web_status'.step \notin WorkingSteps)
             \/ \E h \in Handlers : req[h].pc = "s_clear" /\ req'[h].pc = "s_spawn"]_vars

\* C39: the run-state lock is held only by a run/start that is on its way to releasing
\* it, and it is free again and again; no run/start, run/stop or status request waits
\* for the lock for ever, and no status update of the worker stays undone for ever -
\* also one the worker wants to make while the run/start that launched it holds the lock.
C39_LockProgress ==
    /\ [](lock # 0 => /\ lock \in Handlers
                      /\ req[lock].kind = "start"
                      /\ req[lock].pc \in {"s_clear", "s_spawn", "s_release"})
    /\ []<>(lock = 0)
    /\ \A h \in Handlers : []<>(req[h].pc \notin {"s_lock", "p_lock", "t_lock"})
    /\ []<>(\A w \in alive : wk[w].emit = "none")

\* C39 witness: the worker wants to make its first status update while the run/start
\* that launched it still holds the lock, and a run/stop and nothing else waits with it.
C39_Witness ==
    /\ lock # 0 /\ req[lock].pc = "s_release"
    /\ thread \in alive /\ wk[thread].emit = "waiting_for_disc"
    /\ web_status.step = "starting"
    /\ \E h \in Handlers : req[h].pc = "p_lock"

\* ==================================================== claims on the end of a run
\* C40: a done status is emitted only when every item of the queue (none, for the empty
\* queue) was moved or skipped; a run that saw the stop signal has emitted no done; and
\* a done or stopped status is the last status of the run.
C40_DoneOnlyAtEnd ==
    /\ \A n \in 1..Len(statusLog) :
          /\ statusLog[n].step \in {"done", "stopped"} => n = Len(statusLog)
          /\ statusLog[n].step = "done"
                => \A k \in 1..Len(queue) : outcome[k] \in {"moved", "skipped"}
    /\ stop_seen_at # "nowhere"
          => \A n \in 1..Len(statusLog) : statusLog[n].step # "done"
    /\ (pc = "returned" /\ stop_seen_at = "nowhere")
          => (statusLog # <<>> /\ Last(statusLog).step = "done")

\* C40 witness: a run of two items, one skipped and one moved, has ended with done, although
\* a stop was requested after the last cancellation check.
C40_Witness ==
    /\ Len(queue) = 2 /\ pc = "returned"
    /\ outcome[1] = "skipped" /\ outcome[2] = "moved"
    /\ Last(statusLog).step = "done"
    /\ should_stop /\ stop_seen_at = "nowhere"

====
